---- MODULE Spec2Model ----
(***************************************************************************)
(* Workflow orchestration core of the AI agent ecosystem builder:          *)
(* OrchestratorAgent (src/agents/orchestrator_agent.py), the responses of  *)
(* BaseAgent.create_response, the registration loop of                     *)
(* AIAgentEcosystem.initialize_agents (src/main.py) and the final          *)
(* validation of ValidatorAgent (src/agents/validator_agent.py).           *)
(*                                                                         *)
(* Spec is the orchestrator under all of its operations, SpecRegistry the  *)
(* orchestrator with a registry built call by call, SpecValidator the      *)
(* validator applied to the validation results it can be handed,           *)
(* SpecTwice the orchestrator with its last execute call remembered,       *)
(* SpecDriver the step sequence of AIAgentEcosystem.run_workflow on the    *)
(* shared context, SpecContext the orchestrator executing on a context     *)
(* its caller filled, and SpecBackup the backup agent                      *)
(* (src/agents/backup_agent.py) with its clock and its directories.        *)
(*                                                                         *)
(* Text values (messages, pause reasons) are sequences of string           *)
(* fragments; an f-string is the concatenation of its fragments.  Python's *)
(* None is the empty sequence NoneVal.  The emoji that open some messages  *)
(* and the line breaks inside them are left out of the fragments.          *)
(***************************************************************************)
EXTENDS Integers, Sequences, FiniteSets, TLC

\* ------------------------------------------------------------------ bounds

\* How many agents may deviate from the plain success outcome in one call.
MaxDeviating == 1

\* ---------------------------------------------------------------- constants

NoneVal == <<>>

\* str(x) inside an f-string: None prints as "None".
Str(t) == IF t = NoneVal THEN <<"None">> ELSE t

\* The empty dict {}.
EmptyData == [k \in {} |-> TRUE]

\* dict.get(key, default)
Get(d, key, default) == IF key \in DOMAIN d THEN d[key] ELSE default

\* context.get("user_input") when the context has no such key.
NoInput == "<absent>"

\* The agents created by initialize_agents, in creation (= registration) order.
StandardAgents ==
    << "env_001", "coord_001", "arch_001", "core_001", "standards_001",
       "backup_001", "test_001", "doc_001", "ethics_001", "valid_001",
       "repo_001", "deploy_001" >>

\* dev_steps with the standards step ahead of the backup step.
dev_steps_StandardsFirst ==
    << [agent_id |-> "arch_001",      agent_name |-> "Architect Agent"],
       [agent_id |-> "core_001",      agent_name |-> "Core Logic Agent"],
       [agent_id |-> "standards_001", agent_name |-> "Standards Agent"],
       [agent_id |-> "backup_001",    agent_name |-> "Backup Agent"],
       [agent_id |-> "test_001",      agent_name |-> "Testing Agent"],
       [agent_id |-> "doc_001",       agent_name |-> "Documentation Agent"],
       [agent_id |-> "ethics_001",    agent_name |-> "Ethics Agent"],
       [agent_id |-> "valid_001",     agent_name |-> "Validator Agent"] >>

\* The steps of the development phase, in the order of the dev_steps list.
dev_steps ==
    << [agent_id |-> "arch_001",      agent_name |-> "Architect Agent"],
       [agent_id |-> "core_001",      agent_name |-> "Core Logic Agent"],
       [agent_id |-> "backup_001",    agent_name |-> "Backup Agent"],
       [agent_id |-> "standards_001", agent_name |-> "Standards Agent"],
       [agent_id |-> "test_001",      agent_name |-> "Testing Agent"],
       [agent_id |-> "doc_001",       agent_name |-> "Documentation Agent"],
       [agent_id |-> "ethics_001",    agent_name |-> "Ethics Agent"],
       [agent_id |-> "valid_001",     agent_name |-> "Validator Agent"] >>

Range(s) == { s[i] : i \in DOMAIN s }

\* Every agent id a registry key can take in the model.
AgentIds == Range(StandardAgents) \cup {"env_agent"}

\* Agents handed to register_agent one at a time (besides initialize_agents).
RegisterInputs == {"env_agent", "env_001", "coord_001"}

\* An agent object: its agent_id and which of the objects made with that id it is.
Agent(agent_id, object) == [agent_id |-> agent_id, object |-> object]

\* The user_input values of the context handed to execute.
UserInputs == {"Try again", "try again", "TRY AGAIN", "hello", NoInput}

\* Messages of failing steps.
StepMessages == { <<"tool unavailable">>, <<"syntax error in module X">> }

\* The empty message "" of a failure that explains nothing.
NoMessage == <<"">>

\* Reasons handed to pause_workflow and models handed to handle_model_unavailable.
PauseReasons == { <<"tool unavailable">>, <<"rate limited">> }
Models == {"gpt-4o-mini"}

\* ------------------------------------------------------- the agents' outcomes

\* What one agent's execute does in one call: it returns a response
\* (success, message, data) or raises.
OkOutcome ==
    [raises |-> FALSE, success |-> TRUE, message |-> <<"done">>, data |-> EmptyData]

Outcomes ==
    {OkOutcome}
    \cup { [raises |-> FALSE, success |-> TRUE, message |-> <<"done">>,
            data |-> [project_defined |-> TRUE]] }
    \cup { [raises |-> FALSE, success |-> FALSE, message |-> m, data |-> EmptyData]
             : m \in StepMessages \cup {NoMessage} }
    \cup { [raises |-> FALSE, success |-> FALSE, message |-> <<"tool unavailable">>,
            data |-> [project_defined |-> TRUE]] }
    \cup { [raises |-> TRUE, success |-> FALSE, message |-> <<"boom">>,
            data |-> EmptyData] }

\* The agents the orchestrator looks up and invokes.
StepIds == {"env_001", "coord_001", "repo_001"} \cup { dev_steps[i].agent_id : i \in DOMAIN dev_steps }

\* The behaviours of the agents during one call of the orchestrator: a function
\* from agent ids to outcomes in which at most MaxDeviating agents, all of them
\* out of ids, do anything else than succeed plainly.
BehavioursOf(ids) ==
    { [a \in AgentIds |-> IF a \in DOMAIN f THEN f[a] ELSE OkOutcome] :
        f \in UNION { [S -> Outcomes \ {OkOutcome}] :
                        S \in { T \in SUBSET ids : Cardinality(T) <= MaxDeviating } } }

\* The behaviours in which the deviating agents are agents the orchestrator
\* invokes.
Behaviours == BehavioursOf(StepIds)

\* BaseAgent.create_response: the standardized response (the timestamp is left out).
create_response(agent_id, success, message, data) ==
    [success |-> success, message |-> message, data |-> data, agent_id |-> agent_id]

\* The orchestrator's own agent_id.
OrchId == "orch_001"

\* ---------------------------------------------------------------------- state

VARIABLES
    agents,          \* self.agents: the registry's keys, in insertion order
    agent_objects,   \* self.agents: the object stored under each key
    workflow_state,  \* self.workflow_state
    current_step,    \* self.current_step
    workflow_steps,  \* self.workflow_steps
    paused,          \* self.paused
    pause_reason,    \* self.pause_reason
    result,          \* what the last call returned
    calls,           \* the agents invoked by the last call, with their outcomes
    origReason,      \* the reason stored when the current pause began
    happy,           \* execute calls made so far on the happy path, -1 off it
    restart,         \* progress of a pause/resume cycle in the development phase
    started,         \* execute has been called on this orchestrator
    validation_context,  \* the context handed to ValidatorAgent.execute
    validation_response, \* what ValidatorAgent.execute returned for it
    held,            \* the agents whose object holds the context (self.context)
    last_call,       \* the execute call before this one, where calls are observed
    shared_context,  \* AIAgentEcosystem.context, the context shared by the steps
    pc,              \* where run_workflow stands
    invoked,         \* the agents run_workflow has invoked, with what it handed them
    deployment,      \* what the last DeploymentAgent.execute did
    backup_history,  \* BackupAgent.backup_history
    backup_dirs,     \* the backup directories on disk, under self.backup_dir
    clock,           \* what datetime.now() last returned, in ticks
    backup_response  \* what the last call of the backup agent returned

orchestrator_vars ==
    << agents, agent_objects, workflow_state, current_step, workflow_steps,
       paused, pause_reason, result, calls, origReason, happy, restart, started,
       last_call >>

validator_vars == << validation_context, validation_response >>

driver_vars == << shared_context, pc, invoked, deployment >>

backup_vars == << backup_history, backup_dirs, clock, backup_response >>

\* What the operations of the orchestrator never touch.
outside_vars == << validator_vars, driver_vars, backup_vars >>

vars == << orchestrator_vars, held, validator_vars, driver_vars, backup_vars >>

\* A method that returns nothing.
NoResult == [returned |-> FALSE]

\* No execute call has been observed.
NoCall == [made |-> FALSE]

\* key in self.agents
Registered(key) == \E i \in DOMAIN agents : agents[i] = key

\* self.agents[agent.agent_id] = agent, on the keys: a new key is appended, an
\* existing key keeps its place.
SetKey(reg, key) ==
    IF \E i \in DOMAIN reg : reg[i] = key THEN reg ELSE Append(reg, key)

\* self.agents[agent.agent_id] = agent, on the values: the object stored under
\* the key is the one handed in, whatever was stored before.
SetValue(objects, key, object) ==
    [ k \in DOMAIN objects \cup {key} |-> IF k = key THEN object ELSE objects[k] ]

\* OrchestratorAgent.__init__
OrchestratorInit ==
    /\ agents = <<>>
    /\ agent_objects = EmptyData
    /\ workflow_state = "initializing"
    /\ current_step = 0
    /\ workflow_steps = <<>>
    /\ paused = FALSE
    /\ pause_reason = NoneVal
    /\ result = NoResult
    /\ calls = <<>>
    /\ origReason = NoneVal
    /\ happy = -1
    /\ restart = "idle"
    /\ started = FALSE
    /\ held = {}
    /\ last_call = NoCall

\* AIAgentEcosystem.__init__; run_workflow has not been called.
DriverInit ==
    /\ shared_context = EmptyData
    /\ pc = "env"
    /\ invoked = <<>>
    /\ deployment = NoResult

\* BackupAgent.__init__, with no backup on disk.
BackupInit ==
    /\ backup_history = << >>
    /\ backup_dirs = {}
    /\ clock = 0
    /\ backup_response = NoResult

\* A fresh orchestrator, a fresh driver and a fresh backup agent; the
\* validator has been handed nothing.
Init ==
    /\ OrchestratorInit
    /\ DriverInit
    /\ BackupInit
    /\ validation_context = EmptyData
    /\ validation_response = NoResult

\* ------------------------------------------------ monitors (observation only)

\* The reason stored when the pause that is in force began.
NextOrigReason(paused2, reason2) ==
    IF ~paused2 THEN NoneVal
    ELSE IF ~paused THEN reason2
    ELSE origReason

\* A pause that begins in the development phase, its resume, and the first run
\* of the phase after it.
NextRestart(paused2, ranPhase) ==
    IF ~paused /\ paused2
      THEN (IF workflow_state = "development" THEN "paused" ELSE "idle")
    ELSE IF paused /\ ~paused2
      THEN (IF restart = "paused" THEN "resumed" ELSE "idle")
    ELSE IF ranPhase
      THEN (IF restart = "resumed" THEN "reran" ELSE "idle")
    ELSE IF restart = "reran" THEN "idle"
    ELSE restart

\* Every agent succeeds and the coordinator asserts data.project_defined.
HappyBehaviour ==
    [a \in AgentIds |->
        IF a = "coord_001"
          THEN [raises |-> FALSE, success |-> TRUE, message |-> <<"done">>,
                data |-> [project_defined |-> TRUE]]
          ELSE OkOutcome]

\* The phases in their order; the happy path takes one execute call per phase left.
PhaseOrder == << "initializing", "definition", "development", "delivery", "completed" >>
HappyCalls == Len(PhaseOrder) - 1

Monitors(paused2, reason2, ranPhase, happy2) ==
    /\ origReason' = NextOrigReason(paused2, reason2)
    /\ restart' = NextRestart(paused2, ranPhase)
    /\ happy' = happy2

\* ------------------------------------------------------------- registration

\* OrchestratorAgent.register_agent
register_agent(reg, agent_id) == SetKey(reg, agent_id)

RegisterAgent(agent) ==
    /\ agents' = register_agent(agents, agent.agent_id)
    /\ agent_objects' = SetValue(agent_objects, agent.agent_id, agent.object)
    /\ result' = NoResult
    /\ calls' = <<>>
    /\ UNCHANGED << outside_vars, held, last_call >>
    /\ Monitors(paused, pause_reason, FALSE, -1)
    /\ UNCHANGED << workflow_state, current_step, workflow_steps, paused, pause_reason,
                    started >>

RECURSIVE RegisterAll(_, _, _)
RegisterAll(reg, ids, i) ==
    IF i > Len(ids) THEN reg
    ELSE RegisterAll(register_agent(reg, ids[i]), ids, i + 1)

\* AIAgentEcosystem.initialize_agents: a fresh orchestrator on which every
\* standard agent is registered, in the order of self.agents.values().
InitializeAgents ==
    /\ agents = <<>> /\ workflow_state = "initializing"
    /\ ~paused /\ pause_reason = NoneVal /\ ~started
    /\ agents' = RegisterAll(agents, StandardAgents, 1)
    /\ agent_objects' = [ k \in Range(StandardAgents) |-> "first" ]
    /\ result' = NoResult
    /\ calls' = <<>>
    /\ UNCHANGED << outside_vars, held, last_call >>
    /\ Monitors(paused, pause_reason, FALSE, 0)
    /\ UNCHANGED << workflow_state, current_step, workflow_steps, paused, pause_reason,
                    started >>

\* ------------------------------------------------------------ pause / resume

\* OrchestratorAgent.pause_workflow: the new (paused, pause_reason).
pause_workflow(reason) == [paused |-> TRUE, pause_reason |-> reason]

\* OrchestratorAgent.resume_workflow: the new (paused, pause_reason).
resume_workflow == [paused |-> FALSE, pause_reason |-> NoneVal]

PauseWorkflow(reason) ==
    LET p == pause_workflow(reason) IN
    /\ paused' = p.paused
    /\ pause_reason' = p.pause_reason
    /\ result' = NoResult
    /\ calls' = <<>>
    /\ UNCHANGED << outside_vars, held, last_call >>
    /\ Monitors(p.paused, p.pause_reason, FALSE, -1)
    /\ UNCHANGED << agents, agent_objects, workflow_state, current_step,
                    workflow_steps, started >>

ResumeWorkflow ==
    LET p == resume_workflow IN
    /\ paused' = p.paused
    /\ pause_reason' = p.pause_reason
    /\ result' = NoResult
    /\ calls' = <<>>
    /\ UNCHANGED << outside_vars, held, last_call >>
    /\ Monitors(p.paused, p.pause_reason, FALSE, -1)
    /\ UNCHANGED << agents, agent_objects, workflow_state, current_step,
                    workflow_steps, started >>

\* handle_model_unavailable answering without pausing the workflow.
handle_model_unavailable_KeepsRunning(model) ==
    [ paused |-> paused,
      pause_reason |-> pause_reason,
      result |-> create_response(OrchId, FALSE,
                    <<"Model ", model,
                      " is unavailable. No fallback will be used to maintain cost control. Type 'Try again' once you want to resume.">>,
                    [model_unavailable |-> TRUE, model |-> model]) ]

\* OrchestratorAgent.handle_model_unavailable
handle_model_unavailable(model) ==
    LET p == pause_workflow(<<"Model ", model, " unavailable">>) IN
    [ paused |-> p.paused,
      pause_reason |-> p.pause_reason,
      result |-> create_response(OrchId, FALSE,
                    <<"Model ", model,
                      " is unavailable. No fallback will be used to maintain cost control. Type 'Try again' once you want to resume.">>,
                    [model_unavailable |-> TRUE, model |-> model]) ]

HandleModelUnavailable(model) ==
    LET h == handle_model_unavailable(model) IN
    /\ paused' = h.paused
    /\ pause_reason' = h.pause_reason
    /\ result' = h.result
    /\ calls' = <<>>
    /\ UNCHANGED << outside_vars, held, last_call >>
    /\ Monitors(h.paused, h.pause_reason, FALSE, -1)
    /\ UNCHANGED << agents, agent_objects, workflow_state, current_step,
                    workflow_steps, started >>

\* get_workflow_status reporting the workflow as running whatever its state.
get_workflow_status_NeverPaused ==
    [ workflow_state |-> workflow_state,
      paused |-> FALSE,
      pause_reason |-> NoneVal,
      current_step |-> current_step,
      total_steps |-> Len(workflow_steps),
      registered_agents |-> agents ]

\* get_workflow_status counting the phases the workflow has left behind.
get_workflow_status_CountsPhases ==
    [ workflow_state |-> workflow_state,
      paused |-> paused,
      pause_reason |-> pause_reason,
      current_step |-> IF workflow_state = "initializing" THEN 0
                       ELSE IF workflow_state = "definition" THEN 1
                       ELSE IF workflow_state = "development" THEN 2
                       ELSE IF workflow_state = "delivery" THEN 3
                       ELSE 4,
      total_steps |-> 4,
      registered_agents |-> agents ]

\* OrchestratorAgent.get_workflow_status
get_workflow_status ==
    [ workflow_state |-> workflow_state,
      paused |-> paused,
      pause_reason |-> pause_reason,
      current_step |-> current_step,
      total_steps |-> Len(workflow_steps),
      registered_agents |-> agents ]

GetWorkflowStatus ==
    /\ result' = get_workflow_status
    /\ calls' = <<>>
    /\ UNCHANGED << outside_vars, held, last_call >>
    /\ Monitors(paused, pause_reason, FALSE, -1)
    /\ UNCHANGED << agents, agent_objects, workflow_state, current_step,
                    workflow_steps, paused, pause_reason, started >>

\* ------------------------------------------------------------------- execute

\* One entry of the call log: the agent invoked and what its execute did.
Call(agent_id, o) == [agent_id |-> agent_id, outcome |-> o]

\* The response an agent's execute returns (built by its create_response).
AgentResponse(agent_id, o) == create_response(agent_id, o.success, o.message, o.data)

\* What a phase handler hands back to execute: the new workflow_state, the
\* response it returns and the agents it invoked, or the exception it raised.
Returned(state, response, log) ==
    [raised |-> FALSE, error |-> NoneVal, workflow_state |-> state,
     result |-> response, calls |-> log]

Raised(error, log) ==
    [raised |-> TRUE, error |-> error, workflow_state |-> workflow_state,
     result |-> NoResult, calls |-> log]

\* The setup phase looking its agent up under the key it invokes it by.
_execute_environment_setup_ByOwnId(beh) ==
    IF ~Registered("env_001")
      THEN Returned(workflow_state,
                    create_response(OrchId, FALSE,
                                    <<"Environment agent not registered">>, EmptyData),
                    <<>>)
    ELSE LET o == beh["env_001"]
             log == << Call("env_001", o) >>
         IN  IF o.raises THEN Raised(o.message, log)
             ELSE IF o.success
               THEN Returned("definition",
                             create_response(OrchId, TRUE,
                                 <<"Environment setup completed. Moving to definition phase.">>,
                                 [next_phase |-> "definition"]),
                             log)
             ELSE Returned(workflow_state, AgentResponse("env_001", o), log)

\* OrchestratorAgent._execute_environment_setup
_execute_environment_setup(beh) ==
    IF ~Registered("env_agent")
      THEN Returned(workflow_state,
                    create_response(OrchId, FALSE,
                                    <<"Environment agent not registered">>, EmptyData),
                    <<>>)
    ELSE IF ~Registered("env_001")
      THEN Raised(<<"'env_001'">>, <<>>)   \* str(KeyError('env_001'))
    ELSE LET o == beh["env_001"]
             log == << Call("env_001", o) >>
         IN  IF o.raises THEN Raised(o.message, log)
             ELSE IF o.success
               THEN Returned("definition",
                             create_response(OrchId, TRUE,
                                 <<"Environment setup completed. Moving to definition phase.">>,
                                 [next_phase |-> "definition"]),
                             log)
             ELSE Returned(workflow_state, AgentResponse("env_001", o), log)

\* The definition phase without the project_defined gate.
_execute_definition_phase_NoGate(beh) ==
    IF ~Registered("coord_001")
      THEN Returned(workflow_state,
                    create_response(OrchId, FALSE,
                                    <<"Coordinator agent not registered">>, EmptyData),
                    <<>>)
    ELSE LET o == beh["coord_001"]
             log == << Call("coord_001", o) >>
         IN  IF o.raises THEN Raised(o.message, log)
             ELSE IF o.success
               THEN Returned("development",
                             create_response(OrchId, TRUE,
                                 <<"Project definition completed. Starting development phase.">>,
                                 [next_phase |-> "development"]),
                             log)
             ELSE Returned(workflow_state, AgentResponse("coord_001", o), log)

\* OrchestratorAgent._execute_definition_phase
_execute_definition_phase(beh) ==
    IF ~Registered("coord_001")
      THEN Returned(workflow_state,
                    create_response(OrchId, FALSE,
                                    <<"Coordinator agent not registered">>, EmptyData),
                    <<>>)
    ELSE LET o == beh["coord_001"]
             log == << Call("coord_001", o) >>
         IN  IF o.raises THEN Raised(o.message, log)
             ELSE IF o.success /\ Get(o.data, "project_defined", FALSE)
               THEN Returned("development",
                             create_response(OrchId, TRUE,
                                 <<"Project definition completed. Starting development phase.">>,
                                 [next_phase |-> "development"]),
                             log)
             ELSE Returned(workflow_state, AgentResponse("coord_001", o), log)

\* The development steps in the order in which their agents were registered.
IsDevStep(agent_id) == \E k \in DOMAIN dev_steps : dev_steps[k].agent_id = agent_id
DevStepOf(agent_id) == CHOOSE s \in Range(dev_steps) : s.agent_id = agent_id
StepsAsRegistered == SelectSeq(agents, IsDevStep)

\* RunDevSteps going through the registry in registration order.
RECURSIVE RunDevSteps_AsRegistered(_, _, _)
RunDevSteps_AsRegistered(i, beh, log) ==
    IF i > Len(StepsAsRegistered)
      THEN Returned("delivery",
                    create_response(OrchId, TRUE,
                        <<"Development phase completed. Moving to delivery phase.">>,
                        [next_phase |-> "delivery"]),
                    log)
    ELSE LET step == DevStepOf(StepsAsRegistered[i])
             o == beh[step.agent_id]
             log2 == Append(log, Call(step.agent_id, o))
         IN  IF o.raises THEN Raised(o.message, log2)
             ELSE IF ~o.success
               THEN Returned(workflow_state,
                             create_response(OrchId, FALSE,
                                 <<"Development step failed: ", step.agent_name, " - ">>
                                     \o Str(o.message),
                                 EmptyData),
                             log2)
             ELSE RunDevSteps_AsRegistered(i + 1, beh, log2)

\* RunDevSteps invoking a failed step a second time before it reports it.
RECURSIVE RunDevSteps_RetryFailed(_, _, _)
RunDevSteps_RetryFailed(i, beh, log) ==
    IF i > Len(dev_steps)
      THEN Returned("delivery",
                    create_response(OrchId, TRUE,
                        <<"Development phase completed. Moving to delivery phase.">>,
                        [next_phase |-> "delivery"]),
                    log)
    ELSE LET step == dev_steps[i] IN
         IF ~Registered(step.agent_id) THEN RunDevSteps_RetryFailed(i + 1, beh, log)
         ELSE LET o == beh[step.agent_id]
                  log2 == Append(log, Call(step.agent_id, o))
              IN  IF o.raises THEN Raised(o.message, log2)
                  ELSE IF ~o.success
                    THEN Returned(workflow_state,
                                  create_response(OrchId, FALSE,
                                      <<"Development step failed: ", step.agent_name, " - ">>
                                          \o Str(o.message),
                                      EmptyData),
                                  Append(log2, Call(step.agent_id, o)))
                  ELSE RunDevSteps_RetryFailed(i + 1, beh, log2)

\* RunDevSteps without the short circuit: a failed step is reported only once
\* the rest of the steps have run.
RECURSIVE RunDevSteps_NoShortCircuit(_, _, _)
RunDevSteps_NoShortCircuit(i, beh, log) ==
    LET failed == { j \in DOMAIN log : ~log[j].outcome.success } IN
    IF i > Len(dev_steps)
      THEN IF failed = {}
             THEN Returned("delivery",
                           create_response(OrchId, TRUE,
                               <<"Development phase completed. Moving to delivery phase.">>,
                               [next_phase |-> "delivery"]),
                           log)
             ELSE LET k == CHOOSE j \in failed : \A j2 \in failed : j <= j2 IN
                  Returned(workflow_state,
                           create_response(OrchId, FALSE,
                               <<"Development step failed: ", log[k].agent_id, " - ">>
                                   \o Str(log[k].outcome.message),
                               EmptyData),
                           log)
    ELSE LET step == dev_steps[i] IN
         IF ~Registered(step.agent_id) THEN RunDevSteps_NoShortCircuit(i + 1, beh, log)
         ELSE LET o == beh[step.agent_id]
                  log2 == Append(log, Call(step.agent_id, o))
              IN  IF o.raises THEN Raised(o.message, log2)
                  ELSE RunDevSteps_NoShortCircuit(i + 1, beh, log2)

\* The loop of _execute_development_phase over dev_steps, from step i on, with
\* the calls made so far.
RECURSIVE RunDevSteps(_, _, _)
RunDevSteps(i, beh, log) ==
    IF i > Len(dev_steps)
      THEN Returned("delivery",
                    create_response(OrchId, TRUE,
                        <<"Development phase completed. Moving to delivery phase.">>,
                        [next_phase |-> "delivery"]),
                    log)
    ELSE LET step == dev_steps[i] IN
         IF ~Registered(step.agent_id) THEN RunDevSteps(i + 1, beh, log)
         ELSE LET o == beh[step.agent_id]
                  log2 == Append(log, Call(step.agent_id, o))
              IN  IF o.raises THEN Raised(o.message, log2)
                  ELSE IF ~o.success
                    THEN Returned(workflow_state,
                                  create_response(OrchId, FALSE,
                                      <<"Development step failed: ", step.agent_name, " - ">>
                                          \o Str(o.message),
                                      EmptyData),
                                  log2)
                  ELSE RunDevSteps(i + 1, beh, log2)

\* The development phase taken up after its first step.
_execute_development_phase_SkipFirst(beh) == RunDevSteps(2, beh, <<>>)

\* OrchestratorAgent._execute_development_phase
_execute_development_phase(beh) == RunDevSteps(1, beh, <<>>)

\* The delivery phase starting the workflow over once it has delivered.
_execute_delivery_phase_StartsOver(beh) ==
    IF ~Registered("repo_001")
      THEN Returned(workflow_state,
                    create_response(OrchId, FALSE,
                                    <<"Repository agent not registered">>, EmptyData),
                    <<>>)
    ELSE LET o == beh["repo_001"]
             log == << Call("repo_001", o) >>
         IN  IF o.raises THEN Raised(o.message, log)
             ELSE IF o.success
               THEN Returned("initializing",
                             create_response(OrchId, TRUE,
                                 <<"Project delivery completed successfully!">>,
                                 [project_completed |-> TRUE]),
                             log)
             ELSE Returned(workflow_state, AgentResponse("repo_001", o), log)

\* OrchestratorAgent._execute_delivery_phase
_execute_delivery_phase(beh) ==
    IF ~Registered("repo_001")
      THEN Returned(workflow_state,
                    create_response(OrchId, FALSE,
                                    <<"Repository agent not registered">>, EmptyData),
                    <<>>)
    ELSE LET o == beh["repo_001"]
             log == << Call("repo_001", o) >>
         IN  IF o.raises THEN Raised(o.message, log)
             ELSE IF o.success
               THEN Returned("completed",
                             create_response(OrchId, TRUE,
                                 <<"Project delivery completed successfully!">>,
                                 [project_completed |-> TRUE]),
                             log)
             ELSE Returned(workflow_state, AgentResponse("repo_001", o), log)

\* The command _handle_pause_resume compares user_input with.
ResumeCommand == "Try again"

\* _handle_pause_resume dropping the pause once it has echoed the reason.
_handle_pause_resume_EchoOnce(user_input) ==
    IF user_input = ResumeCommand
      THEN LET p == resume_workflow IN
           [ paused |-> p.paused, pause_reason |-> p.pause_reason,
             result |-> create_response(OrchId, TRUE,
                            <<"Workflow resumed. Continuing from last step.">>,
                            [resumed |-> TRUE]) ]
      ELSE [ paused |-> FALSE, pause_reason |-> NoneVal,
             result |-> create_response(OrchId, FALSE,
                            <<"Workflow paused: ">> \o Str(pause_reason)
                                \o <<". Type 'Try again' to resume.">>,
                            [paused |-> TRUE, reason |-> pause_reason]) ]

\* OrchestratorAgent._handle_pause_resume: the new (paused, pause_reason) and
\* the response.
_handle_pause_resume(user_input) ==
    IF user_input = ResumeCommand
      THEN LET p == resume_workflow IN
           [ paused |-> p.paused, pause_reason |-> p.pause_reason,
             result |-> create_response(OrchId, TRUE,
                            <<"Workflow resumed. Continuing from last step.">>,
                            [resumed |-> TRUE]) ]
      ELSE [ paused |-> paused, pause_reason |-> pause_reason,
             result |-> create_response(OrchId, FALSE,
                            <<"Workflow paused: ">> \o Str(pause_reason)
                                \o <<". Type 'Try again' to resume.">>,
                            [paused |-> TRUE, reason |-> pause_reason]) ]

\* run_phase starting the workflow over when it is asked to run a state that
\* has no handler.
run_phase_Wraps(beh) ==
    IF workflow_state = "initializing" THEN _execute_environment_setup(beh)
    ELSE IF workflow_state = "definition" THEN _execute_definition_phase(beh)
    ELSE IF workflow_state = "development" THEN _execute_development_phase(beh)
    ELSE IF workflow_state = "delivery" THEN _execute_delivery_phase(beh)
    ELSE _execute_environment_setup(beh)

\* run_phase going on to the definition phase in the same call once the
\* environment setup has succeeded.
run_phase_RunsOn(beh) ==
    IF workflow_state = "initializing"
      THEN LET r1 == _execute_environment_setup(beh)
               r2 == _execute_definition_phase(beh)
           IN  IF r1.raised \/ r1.workflow_state # "definition" THEN r1
               ELSE IF r2.raised THEN Raised(r2.error, r1.calls \o r2.calls)
               ELSE Returned(IF r2.result.success THEN r2.workflow_state ELSE "definition",
                             r2.result, r1.calls \o r2.calls)
    ELSE IF workflow_state = "definition" THEN _execute_definition_phase(beh)
    ELSE IF workflow_state = "development" THEN _execute_development_phase(beh)
    ELSE IF workflow_state = "delivery" THEN _execute_delivery_phase(beh)
    ELSE Returned(workflow_state,
                  create_response(OrchId, FALSE,
                      <<"Unknown workflow state: ", workflow_state>>, EmptyData),
                  <<>>)

\* The phase handler execute dispatches to when the workflow is not paused.
run_phase(beh) ==
    IF workflow_state = "initializing" THEN _execute_environment_setup(beh)
    ELSE IF workflow_state = "definition" THEN _execute_definition_phase(beh)
    ELSE IF workflow_state = "development" THEN _execute_development_phase(beh)
    ELSE IF workflow_state = "delivery" THEN _execute_delivery_phase(beh)
    ELSE Returned(workflow_state,
                  create_response(OrchId, FALSE,
                      <<"Unknown workflow state: ", workflow_state>>, EmptyData),
                  <<>>)

\* execute running the phase after it has answered a paused call.
execute_RunsWhilePaused(user_input, beh) ==
    LET r == run_phase(beh)
        h == _handle_pause_resume(user_input)
    IN  [ workflow_state |-> r.workflow_state,
          paused |-> IF paused THEN h.paused ELSE paused,
          pause_reason |-> IF paused THEN h.pause_reason ELSE pause_reason,
          result |-> IF paused THEN h.result
                     ELSE IF r.raised
                       THEN create_response(OrchId, FALSE,
                                <<"Workflow execution failed: ">> \o r.error, EmptyData)
                     ELSE r.result,
          calls |-> r.calls ]

\* execute whose first call on an orchestrator only starts the workflow up and
\* runs nothing.
execute_WarmsUp(user_input, beh) ==
    IF ~started
      THEN [ workflow_state |-> workflow_state, paused |-> paused,
             pause_reason |-> pause_reason,
             result |-> create_response(OrchId, FALSE, <<"Workflow starting">>,
                                        EmptyData),
             calls |-> <<>> ]
    ELSE IF paused
      THEN LET h == _handle_pause_resume(user_input) IN
           [ workflow_state |-> workflow_state, paused |-> h.paused,
             pause_reason |-> h.pause_reason, result |-> h.result, calls |-> <<>> ]
      ELSE LET r == run_phase(beh) IN
           [ workflow_state |-> r.workflow_state, paused |-> paused,
             pause_reason |-> pause_reason,
             result |-> IF r.raised
                          THEN create_response(OrchId, FALSE,
                                   <<"Workflow execution failed: ">> \o r.error,
                                   EmptyData)
                          ELSE r.result,
             calls |-> r.calls ]

\* execute without its try/except: an exception raised below it reaches the
\* caller, who gets no response.
execute_Unguarded(user_input, beh) ==
    IF paused
      THEN LET h == _handle_pause_resume(user_input) IN
           [ workflow_state |-> workflow_state, paused |-> h.paused,
             pause_reason |-> h.pause_reason, result |-> h.result, calls |-> <<>> ]
      ELSE LET r == run_phase(beh) IN
           [ workflow_state |-> r.workflow_state, paused |-> paused,
             pause_reason |-> pause_reason, result |-> r.result, calls |-> r.calls ]

\* execute answering an exception with a failure that explains nothing.
execute_SilentFailure(user_input, beh) ==
    IF paused
      THEN LET h == _handle_pause_resume(user_input) IN
           [ workflow_state |-> workflow_state, paused |-> h.paused,
             pause_reason |-> h.pause_reason, result |-> h.result, calls |-> <<>> ]
      ELSE LET r == run_phase(beh) IN
           [ workflow_state |-> r.workflow_state, paused |-> paused,
             pause_reason |-> pause_reason,
             result |-> IF r.raised
                          THEN create_response(OrchId, FALSE, NoMessage, EmptyData)
                          ELSE r.result,
             calls |-> r.calls ]

\* OrchestratorAgent.execute: the new workflow_state, paused and pause_reason,
\* the response and the agents invoked.  An exception raised below it is caught
\* and turned into a failure response.
execute(user_input, beh) ==
    IF paused
      THEN LET h == _handle_pause_resume(user_input) IN
           [ workflow_state |-> workflow_state, paused |-> h.paused,
             pause_reason |-> h.pause_reason, result |-> h.result, calls |-> <<>> ]
      ELSE LET r == run_phase(beh) IN
           [ workflow_state |-> r.workflow_state, paused |-> paused,
             pause_reason |-> pause_reason,
             result |-> IF r.raised
                          THEN create_response(OrchId, FALSE,
                                   <<"Workflow execution failed: ">> \o r.error,
                                   EmptyData)
                          ELSE r.result,
             calls |-> r.calls ]

\* The steps a phase invokes, in its order: the agents its handler looks up.
PhaseSequence(phase) ==
    IF phase = "initializing" THEN << "env_001" >>
    ELSE IF phase = "definition" THEN << "coord_001" >>
    ELSE IF phase = "development" THEN [ i \in DOMAIN dev_steps |-> dev_steps[i].agent_id ]
    ELSE IF phase = "delivery" THEN << "repo_001" >>
    ELSE << >>

\* The registered steps of a phase, in the phase's order.
RegisteredSteps(phase) == SelectSeq(PhaseSequence(phase), Registered)

\* The agents of a call log, in the order of their invocation.
CallIds(log) == [ i \in DOMAIN log |-> log[i].agent_id ]

\* The agents whose execute stores the context it is handed in the agent
\* object (CoreLogicAgent.execute: self.context = context).
ContextKeepers == {"core_001"}

\* One call of execute: what it does to the orchestrator and to the agents it
\* invokes.
ExecuteStep(user_input, beh) ==
    LET e == execute(user_input, beh) IN
    /\ workflow_state' = e.workflow_state
    /\ paused' = e.paused
    /\ pause_reason' = e.pause_reason
    /\ result' = e.result
    /\ calls' = e.calls
    /\ held' = held \cup (ContextKeepers \cap Range(CallIds(e.calls)))
    /\ UNCHANGED outside_vars
    /\ Monitors(e.paused, e.pause_reason, ~paused,
                IF happy >= 0 /\ \A a \in Range(RegisteredSteps(workflow_state)) :
                                    beh[a] = HappyBehaviour[a]
                  THEN (IF happy < HappyCalls THEN happy + 1 ELSE happy)
                  ELSE -1)
    /\ started' = TRUE
    /\ UNCHANGED << agents, agent_objects, current_step, workflow_steps >>

Execute(user_input, beh) ==
    /\ ExecuteStep(user_input, beh)
    /\ UNCHANGED last_call

\* ------------------------------------------------------------- specification

\* The inputs of an execute call that the call reads: user_input is read only
\* while paused (by _handle_pause_resume), agents are invoked only while not
\* paused, and then only the registered steps of the running phase; the input
\* that is not read is fixed.
ExecuteInputs == IF paused THEN UserInputs ELSE {"hello"}
ExecuteBehaviours ==
    IF paused THEN {HappyBehaviour}
    ELSE BehavioursOf(Range(RegisteredSteps(workflow_state)))

\* One execute call by the caller.
ExecuteCall == \E u \in ExecuteInputs, beh \in ExecuteBehaviours : Execute(u, beh)

Next ==
    \/ \E a \in RegisterInputs : RegisterAgent(Agent(a, "first"))
    \/ InitializeAgents
    \/ ExecuteCall
    \/ \E r \in PauseReasons : PauseWorkflow(r)
    \/ ResumeWorkflow
    \/ \E m \in Models : HandleModelUnavailable(m)
    \/ GetWorkflowStatus

Spec == Init /\ [][Next]_vars

\* --------------------------------------------- execute calls, observed in pairs

\* What execute reads of the orchestrator: workflow_state, the pause and the
\* registry.
OrchestratorState ==
    [ workflow_state |-> workflow_state, paused |-> paused,
      pause_reason |-> pause_reason, agents |-> agents,
      agent_objects |-> agent_objects ]

\* One execute call, remembered for the next one: the state it was made in,
\* the context and the behaviour of the agents it was made with, whether the
\* call before it was made in that state with that context and that
\* behaviour, the success value it returned and the state it led to.
ExecuteObserved(user_input, beh) ==
    LET e == execute(user_input, beh) IN
    /\ ExecuteStep(user_input, beh)
    /\ last_call' =
         [ made |-> TRUE, state |-> OrchestratorState,
           user_input |-> user_input, beh |-> beh,
           repeats |-> /\ last_call.made
                       /\ last_call.state = OrchestratorState
                       /\ last_call.user_input = user_input
                       /\ last_call.beh = beh,
           success |-> e.result.success,
           next |-> [ OrchestratorState EXCEPT
                        !.workflow_state = e.workflow_state,
                        !.paused = e.paused,
                        !.pause_reason = e.pause_reason ] ]

\* The behaviours in which one registered step of the running phase at most
\* departs from the happy path.
ObservedBehaviours ==
    IF paused THEN {HappyBehaviour}
    ELSE {HappyBehaviour}
         \cup { [HappyBehaviour EXCEPT ![a] = o] :
                  a \in Range(RegisteredSteps(workflow_state)), o \in Outcomes }

ObservedCall ==
    \E u \in ExecuteInputs, beh \in ObservedBehaviours : ExecuteObserved(u, beh)

NextTwice ==
    \/ InitializeAgents
    \/ RegisterAgent(Agent("env_agent", "first"))
    \/ ObservedCall
    \/ \E r \in PauseReasons : PauseWorkflow(r)
    \/ ResumeWorkflow

\* The orchestrator with the standard agents and "env_agent" registered, run,
\* paused and resumed, each execute call remembered until the next one.
SpecTwice == Init /\ [][NextTwice]_vars

\* The agents a caller that builds the registry by hand passes to
\* register_agent, in the order in which it first passes them: the agents of
\* the first two phases, the second step of the development phase, a second
\* object made with that step's agent_id, and only then the first step of the
\* development phase.
RegistryAgents ==
    << Agent("env_agent", "first"), Agent("env_001", "first"),
       Agent("coord_001", "first"), Agent("core_001", "first"),
       Agent("core_001", "second"), Agent("arch_001", "first") >>

\* The caller registers an agent once it has registered the ones before it,
\* and may register any of them again.
RegisterByHand ==
    \E i \in DOMAIN RegistryAgents :
       /\ \A j \in 1..(i - 1) : Registered(RegistryAgents[j].agent_id)
       /\ RegisterAgent(RegistryAgents[i])

NextRegistry ==
    \/ RegisterByHand
    \/ InitializeAgents
    \/ ExecuteCall

\* The orchestrator with a registry built by hand, never paused.
SpecRegistry == Init /\ [][NextRegistry]_vars

\* ----------------------------------------------------------------- validator
\*
\* ValidatorAgent (src/agents/validator_agent.py).  The texts it searches
\* (issue strings, tool names, messages, file paths, keywords) are sequences
\* of one-character strings, so that str.lower, concatenation and the
\* substring test `in` are computed character by character.  A dict that the
\* code iterates (standards_results, security_results, ethics_results) is the
\* sequence of its items, in the dict's order.

\* The letters str.lower changes, and what it changes them to.
UpperCase ==
    << "A", "B", "C", "D", "E", "F", "G", "H", "I", "J", "K", "L", "M",
       "N", "O", "P", "Q", "R", "S", "T", "U", "V", "W", "X", "Y", "Z" >>
LowerCase ==
    << "a", "b", "c", "d", "e", "f", "g", "h", "i", "j", "k", "l", "m",
       "n", "o", "p", "q", "r", "s", "t", "u", "v", "w", "x", "y", "z" >>

\* str.lower leaving the text as it is.
lower_AsIs(text) == text

\* str.lower
lower(text) ==
    [ i \in DOMAIN text |->
        IF \E k \in DOMAIN UpperCase : UpperCase[k] = text[i]
          THEN LowerCase[CHOOSE k \in DOMAIN UpperCase : UpperCase[k] = text[i]]
          ELSE text[i] ]

\* keyword in text: the keyword is a run of consecutive characters of the text.
In(keyword, text) ==
    \E i \in 1..(Len(text) - Len(keyword) + 1) :
       SubSeq(text, i, i + Len(keyword) - 1) = keyword

\* self.validation_criteria
validation_criteria ==
    << "code_quality", "documentation", "testing", "security", "ethics",
       "functionality" >>

\* The keywords of _perform_final_validation that make an issue critical.
critical_keywords ==
    << << "s", "y", "n", "t", "a", "x", " ", "e", "r", "r", "o", "r" >>,
       << "c", "o", "m", "p", "i", "l", "a", "t", "i", "o", "n", " ", "f", "a",    "i", "l", "e", "d" >>,
       << "c", "a", "n", "n", "o", "t", " ", "r", "u", "n" >>,
       << "b", "r", "o", "k", "e", "n" >>,
       << "c", "o", "r", "r", "u", "p", "t", "e", "d" >>,
       << "s", "e", "c", "u", "r", "i", "t", "y", " ", "v", "u", "l", "n", "e",    "r", "a", "b", "i", "l", "i", "t", "y" >> >>

\* The literal texts of the issue strings.
DefaultMessage ==
    << "I", "s", "s", "u", "e", "s", " ", "f", "o", "u", "n", "d" >>
ReadmeIssue ==
    << "R", "E", "A", "D", "M", "E", ".", "m", "d", " ", "n", "o", "t",
       " ", "c", "r", "e", "a", "t", "e", "d" >>
ApiDocsIssue ==
    << "A", "P", "I", " ", "d", "o", "c", "u", "m", "e", "n", "t", "a",
       "t", "i", "o", "n", " ", "n", "o", "t", " ", "c", "r", "e", "a",
       "t", "e", "d" >>
SyntaxIssue ==
    << "S", "y", "n", "t", "a", "x", " ", "v", "a", "l", "i", "d", "a",
       "t", "i", "o", "n", " ", "f", "a", "i", "l", "e", "d" >>
UnitTestsIssue ==
    << "U", "n", "i", "t", " ", "t", "e", "s", "t", "s", " ", "f", "a",
       "i", "l", "e", "d" >>
SecurityIssuePrefix ==
    << "S", "e", "c", "u", "r", "i", "t", "y", " ", "i", "s", "s", "u",
       "e", "s", " ", "i", "n", " " >>
EthicsIssuePrefix ==
    << "E", "t", "h", "i", "c", "a", "l", " ", "i", "s", "s", "u", "e",
       "s", " ", "i", "n", " " >>
UnknownCriterionPrefix ==
    << "U", "n", "k", "n", "o", "w", "n", " ", "c", "r", "i", "t", "e",
       "r", "i", "o", "n", ":", " " >>

\* not d, for a dict or a list
Empty(d) == DOMAIN d = {}

\* What result.get("status") gives when the key is missing.
NoStatus == "<none>"

\* ValidatorAgent._validate_code_quality
_validate_code_quality(validation_results) ==
    LET standards_results == Get(validation_results, "standards_results", EmptyData)
        NotClean(item) == Get(item.value, "status", NoStatus) # "clean"
        Issue(item) == item.key \o <<":", " ">> \o Get(item.value, "message", DefaultMessage)
        bad == SelectSeq(standards_results, NotClean)
        issues == [ i \in DOMAIN bad |-> Issue(bad[i]) ]
    IN  IF Empty(standards_results)
          THEN [passed |-> TRUE, issues |-> <<>>,
                recommendations |-> <<"Consider running code quality tools">>]
          ELSE [passed |-> Len(issues) = 0, issues |-> issues,
                recommendations |->
                    IF ~Empty(issues) THEN <<"Run code quality tools and fix issues">>
                    ELSE <<>>]

\* ValidatorAgent._validate_documentation
_validate_documentation(validation_results) ==
    LET doc_results == Get(validation_results, "documentation_results", EmptyData)
        issues ==
            (IF ~Get(doc_results, "readme_created", FALSE) THEN <<ReadmeIssue>> ELSE <<>>)
            \o (IF ~Get(doc_results, "api_docs_created", FALSE) THEN <<ApiDocsIssue>> ELSE <<>>)
    IN  IF Empty(doc_results)
          THEN [passed |-> TRUE, issues |-> <<>>,
                recommendations |-> <<"Consider adding more documentation">>]
          ELSE [passed |-> Len(issues) = 0, issues |-> issues,
                recommendations |->
                    IF ~Empty(issues) THEN <<"Create comprehensive documentation">>
                    ELSE <<>>]

\* _validate_testing without the default for missing test results.
_validate_testing_NoDefault(validation_results) ==
    LET test_results == Get(validation_results, "test_results", EmptyData)
        unit_tests == Get(test_results, "unit_tests", EmptyData)
        issues ==
            (IF ~Get(test_results, "syntax_valid", FALSE) THEN <<SyntaxIssue>> ELSE <<>>)
            \o (IF "return_code" \in DOMAIN unit_tests /\ unit_tests.return_code = 0
                  THEN <<>> ELSE <<UnitTestsIssue>>)
    IN  [passed |-> Len(issues) = 0, issues |-> issues,
         recommendations |-> IF ~Empty(issues) THEN <<"Fix failing tests">> ELSE <<>>]

\* ValidatorAgent._validate_testing
_validate_testing(validation_results) ==
    LET test_results == Get(validation_results, "test_results", EmptyData)
        unit_tests == Get(test_results, "unit_tests", EmptyData)
        issues ==
            (IF ~Get(test_results, "syntax_valid", FALSE) THEN <<SyntaxIssue>> ELSE <<>>)
            \o (IF "return_code" \in DOMAIN unit_tests /\ unit_tests.return_code = 0
                  THEN <<>> ELSE <<UnitTestsIssue>>)
    IN  IF Empty(test_results)
          THEN [passed |-> TRUE, issues |-> <<>>,
                recommendations |-> <<"Consider adding more comprehensive tests">>]
          ELSE [passed |-> Len(issues) = 0, issues |-> issues,
                recommendations |->
                    IF ~Empty(issues) THEN <<"Fix failing tests">> ELSE <<>>]

\* ValidatorAgent._validate_security
_validate_security(validation_results) ==
    LET security_results == Get(validation_results, "security_results", EmptyData)
        Unsafe(item) == ~Get(item.value, "overall_safe", FALSE)
        Issue(item) == SecurityIssuePrefix \o item.key
        bad == SelectSeq(security_results, Unsafe)
        issues == [ i \in DOMAIN bad |-> Issue(bad[i]) ]
    IN  IF Empty(security_results)
          THEN [passed |-> TRUE, issues |-> <<>>,
                recommendations |-> <<"Consider adding security scanning">>]
          ELSE [passed |-> Len(issues) = 0, issues |-> issues,
                recommendations |->
                    IF ~Empty(issues) THEN <<"Address security issues">> ELSE <<>>]

\* ValidatorAgent._validate_ethics
_validate_ethics(validation_results) ==
    LET ethics_results == Get(validation_results, "ethics_results", EmptyData)
        Unsafe(item) == ~Get(item.value, "overall_safe", FALSE)
        Issue(item) == EthicsIssuePrefix \o item.key
        bad == SelectSeq(ethics_results, Unsafe)
        issues == [ i \in DOMAIN bad |-> Issue(bad[i]) ]
    IN  IF Empty(ethics_results)
          THEN [passed |-> TRUE, issues |-> <<>>,
                recommendations |-> <<"Consider adding ethics review">>]
          ELSE [passed |-> Len(issues) = 0, issues |-> issues,
                recommendations |->
                    IF ~Empty(issues) THEN <<"Address ethical issues">> ELSE <<>>]

\* ValidatorAgent._validate_functionality
_validate_functionality(validation_results) ==
    [passed |-> TRUE, issues |-> <<>>, recommendations |-> <<>>]

\* ValidatorAgent._validate_criterion
_validate_criterion(criterion, validation_results) ==
    IF criterion = "code_quality" THEN _validate_code_quality(validation_results)
    ELSE IF criterion = "documentation" THEN _validate_documentation(validation_results)
    ELSE IF criterion = "testing" THEN _validate_testing(validation_results)
    ELSE IF criterion = "security" THEN _validate_security(validation_results)
    ELSE IF criterion = "ethics" THEN _validate_ethics(validation_results)
    ELSE IF criterion = "functionality" THEN _validate_functionality(validation_results)
    ELSE [passed |-> FALSE, issues |-> << UnknownCriterionPrefix \o <<criterion>> >>]

\* any(keyword in issue.lower() for keyword in [...])
IsCritical(issue) ==
    \E k \in DOMAIN critical_keywords : In(critical_keywords[k], lower(issue))

\* The for loop of _perform_final_validation, from criterion i on, with the
\* report built so far.
RECURSIVE ValidateCriteria(_, _, _)
ValidateCriteria(i, validation_results, validation) ==
    IF i > Len(validation_criteria) THEN validation
    ELSE LET criterion == validation_criteria[i]
             outcome == _validate_criterion(criterion, validation_results)
             issues == Get(outcome, "issues", <<>>)
             recommendations == Get(outcome, "recommendations", <<>>)
             critical_issues == SelectSeq(issues, IsCritical)
             stored == [validation EXCEPT !.criteria = SetValue(@, criterion, outcome)]
         IN  ValidateCriteria(i + 1, validation_results,
                IF ~Get(outcome, "passed", FALSE) /\ ~Empty(issues)
                  THEN IF ~Empty(critical_issues)
                         THEN [stored EXCEPT !.approved = FALSE,
                                             !.issues = @ \o critical_issues,
                                             !.recommendations = @ \o recommendations]
                         ELSE [stored EXCEPT !.recommendations = @ \o recommendations]
                  ELSE stored)

\* ValidatorAgent._perform_final_validation
_perform_final_validation(validation_results) ==
    ValidateCriteria(1, validation_results,
                     [approved |-> TRUE, criteria |-> EmptyData, issues |-> <<>>,
                      recommendations |-> <<>>])

\* The validator's agent_id.
ValidatorId == "valid_001"

\* The validator reporting success whatever the aggregate says.
ValidatorAgent_execute_AlwaysSucceeds(context) ==
    LET validation_results == Get(context, "validation_results", EmptyData)
        final_validation == _perform_final_validation(validation_results)
    IN  create_response(ValidatorId, TRUE,
                        <<"SUCCESS: Project approved for delivery">>,
                        [validation_results |-> final_validation])

\* ValidatorAgent.execute, for a context whose validation_results (when it has
\* any) is a dict of the shape run_workflow builds, on which nothing raises.
ValidatorAgent_execute(context) ==
    LET validation_results == Get(context, "validation_results", EmptyData)
        final_validation == _perform_final_validation(validation_results)
        approved == Get(final_validation, "approved", FALSE)
    IN  create_response(ValidatorId, approved,
                        IF approved THEN <<"SUCCESS: Project approved for delivery">>
                        ELSE <<"ERROR: Project requires additional work">>,
                        [validation_results |-> final_validation])

ValidatorExecute ==
    /\ validation_response = NoResult
    /\ validation_response' = ValidatorAgent_execute(validation_context)
    /\ UNCHANGED << validation_context, orchestrator_vars, held, driver_vars,
                    backup_vars >>

\* --------------------------------------------------- the validator's inputs

\* How many items an iterated dict of the validation results holds at most.
MaxItems == 1

\* The tools of the standards results and the files of the reviews.
Tools ==
    << << "b", "l", "a", "c", "k" >>,
       << "f", "l", "a", "k", "e", "8" >> >>
Files ==
    << << "a", "p", "p", ".", "p", "y" >>,
       << "b", "r", "o", "k", "e", "n", "_", "l", "i", "n", "k", ".", "p", "y" >> >>

\* The messages of the tools.
StyleMessage ==
    << "3", " ", "m", "i", "n", "o", "r", " ", "s", "t", "y", "l", "e",
       " ", "w", "a", "r", "n", "i", "n", "g", "s" >>
SyntaxMessage ==
    << "s", "y", "n", "t", "a", "x", " ", "e", "r", "r", "o", "r", " ",
       "i", "n", " ", "m", "o", "d", "u", "l", "e", " ", "X" >>
SyntaxMessageCapitals ==
    << "S", "y", "n", "t", "a", "x", " ", "E", "r", "r", "o", "r", " ",
       "i", "n", " ", "m", "o", "d", "u", "l", "e", " ", "X" >>
CleanMessage ==
    << "N", "o", " ", "l", "i", "n", "t", "i", "n", "g", " ", "i", "s",
       "s", "u", "e", "s", " ", "f", "o", "u", "n", "d" >>

\* What a tool reports: clean, or issues with a message or without one.
ToolResults ==
    { [status |-> "clean", message |-> CleanMessage], [status |-> "has_issues"] }
    \cup { [status |-> "has_issues", message |-> m] :
              m \in {StyleMessage, SyntaxMessage, SyntaxMessageCapitals} }

\* What a review reports on one file.
FileReviews == { [overall_safe |-> TRUE], [overall_safe |-> FALSE] }

\* The dicts of at most MaxItems items with keys out of keys (each key once,
\* in the order of keys) and values out of values, as the lists of their items.
ItemLists(keys, values) ==
    UNION { { [ i \in 1..n |-> [key |-> keys[k[i]], value |-> v[i]] ] :
                k \in { f \in [1..n -> DOMAIN keys] :
                           \A i, j \in 1..n : i < j => f[i] < f[j] },
                v \in [1..n -> values] } :
            n \in 0..MaxItems }

DocumentationResults ==
    { [readme_created |-> TRUE],
      [readme_created |-> TRUE, api_docs_created |-> TRUE] }

TestResults ==
    { [syntax_valid |-> TRUE, unit_tests |-> [return_code |-> 0]],
      [syntax_validation |-> EmptyData, unit_tests |-> [return_code |-> 1]] }

ResultKeys ==
    { "standards_results", "documentation_results", "test_results",
      "security_results", "ethics_results" }

\* The validation results a caller collects: any of the five entries may be
\* missing.
ValidationResults ==
    { [ key \in present |->
          IF key = "standards_results" THEN standards
          ELSE IF key = "documentation_results" THEN documentation
          ELSE IF key = "test_results" THEN tests
          ELSE IF key = "security_results" THEN security
          ELSE ethics ] :
        present \in SUBSET ResultKeys,
        standards \in ItemLists(Tools, ToolResults),
        documentation \in DocumentationResults,
        tests \in TestResults,
        security \in ItemLists(Files, FileReviews),
        ethics \in ItemLists(SubSeq(Files, 1, 1), FileReviews) }

\* The contexts handed to the validator: with validation results, or without
\* the key (as the orchestrator's shared context).
ValidationContexts ==
    { EmptyData } \cup { [validation_results |-> v] : v \in ValidationResults }

\* A validator that has been handed a context and has not run yet.
InitValidator ==
    /\ OrchestratorInit
    /\ DriverInit
    /\ BackupInit
    /\ validation_context \in ValidationContexts
    /\ validation_response = NoResult

NextValidator == ValidatorExecute

SpecValidator == InitValidator /\ [][NextValidator]_vars

\* ------------------------------------------------------------------- driver
\*
\* AIAgentEcosystem.run_workflow (src/main.py) and the agents whose execute
\* reads the context keys the driver writes.  What the user types is a
\* sequence of one-character strings, so that str.strip, str.lower and the
\* substring test are computed character by character.

\* How many inputs the definition loop takes before the one that ends it.
MaxTurns == 2

\* context[key] = value rebinding the context to a dict of that one item.
SetItem_Replacing(d, key, value) == [ k \in {key} |-> value ]

\* context[key] = value
SetItem(d, key, value) ==
    [ k \in DOMAIN d \cup {key} |-> IF k = key THEN value ELSE d[k] ]

\* str.strip
RECURSIVE lstrip(_)
lstrip(text) ==
    IF text # <<>> /\ text[1] = " " THEN lstrip(Tail(text)) ELSE text
RECURSIVE rstrip(_)
rstrip(text) ==
    IF text # <<>> /\ text[Len(text)] = " "
      THEN rstrip(SubSeq(text, 1, Len(text) - 1))
      ELSE text
strip(text) == rstrip(lstrip(text))

\* The lines the user types in the definition loop: a blank line, a
\* requirement, and the line that starts the development.
DefinitionLines ==
    { << " ", " " >>,
      << "n", "e", "e", "d", " ", "g", "u", "i" >>,
      << " ", "S", "t", "a", "r", "t", " ", "D", "e", "v", "e", "l", "o",
         "p", "m", "e", "n", "t", " " >> }

\* The words run_workflow looks for in a line.
StartDevelopment ==
    << "s", "t", "a", "r", "t", " ", "d", "e", "v", "e", "l", "o", "p",
       "m", "e", "n", "t" >>
RequirementWords ==
    { << "r", "e", "q", "u", "i", "r", "e", "m", "e", "n", "t", "s" >>,
      << "n", "e", "e", "d" >>, << "w", "a", "n", "t" >> }

\* The lines the user types at the deployment prompt.
ChoiceLines == { << "1" >>, << " ", "2", " " >>, << "3" >>, << "4" >>, << >> }

\* What the execute of an agent the driver does not look into does: it
\* succeeds, fails or raises.
StepOutcomes ==
    { OkOutcome,
      [raises |-> FALSE, success |-> FALSE, message |-> <<"tool unavailable">>,
       data |-> EmptyData],
      [raises |-> TRUE, success |-> FALSE, message |-> <<"boom">>, data |-> EmptyData] }

\* The lists of files the code generation may write.
FileLists == { << >>, << "main.py" >>, << "src/calc.py", "main.py" >> }

\* CoreLogicAgent.execute: without an architecture it fails, otherwise it
\* returns the files it wrote under data.generated_files.
CoreLogicAgent_execute ==
    { [raises |-> FALSE, success |-> FALSE,
       message |-> <<"No architecture found. Cannot generate code.">>,
       data |-> EmptyData] }
    \cup { [raises |-> FALSE, success |-> TRUE,
            message |-> <<"Core logic written successfully">>,
            data |-> [generated_files |-> files]] : files \in FileLists }

\* BackupAgent.execute: it fails when the context names no files, otherwise
\* it backs them up, or fails when the file system does.
BackupAgent_execute(context) ==
    LET files_to_backup == Get(context, "generated_files", <<>>) IN
    IF files_to_backup = <<>>
      THEN { [raises |-> FALSE, success |-> FALSE,
              message |-> <<"No files provided for backup">>, data |-> EmptyData] }
      ELSE { [raises |-> FALSE, success |-> TRUE,
              message |-> <<"Backup created successfully">>,
              data |-> [files_backed_up |-> files_to_backup]],
             [raises |-> FALSE, success |-> FALSE,
              message |-> <<"Backup operations failed: ", "disk full">>,
              data |-> EmptyData] }

\* self.deployment_options
deployment_options == {"github", "executable", "source_only"}

\* What _deploy_to_github, _deploy_as_executable and _deploy_source_only
\* return: the package they made, or the failure they caught.
DeployResults(deployment_choice) ==
    { [success |-> TRUE, deployment_type |-> deployment_choice],
      [success |-> FALSE, message |-> <<"deployment failed: ", "disk full">>] }

\* DeploymentAgent.execute falling back to the source deployment for a
\* choice it does not know.
DeploymentAgent_execute_FallsBack(context, package) ==
    [ deployed |-> IF Get(context, "deployment_choice", "source_only")
                        \in deployment_options
                     THEN Get(context, "deployment_choice", "source_only")
                     ELSE "source_only",
      response |-> IF package.success
                     THEN create_response("deploy_001", TRUE,
                              <<"SUCCESS: Deployment completed">>, package)
                     ELSE create_response("deploy_001", FALSE,
                              <<"Deployment failed: ">> \o package.message,
                              EmptyData) ]

\* DeploymentAgent.execute: which deployment it made and the response it
\* returns; package is what the deployment method it dispatches to returns.
DeploymentAgent_execute(context, package) ==
    LET deployment_choice == Get(context, "deployment_choice", "source_only") IN
    IF deployment_choice \in deployment_options
      THEN [ deployed |-> deployment_choice,
             response |-> IF package.success
                            THEN create_response("deploy_001", TRUE,
                                     <<"SUCCESS: Deployment completed">>, package)
                            ELSE create_response("deploy_001", FALSE,
                                     <<"Deployment failed: ">> \o package.message,
                                     EmptyData) ]
      ELSE [ deployed |-> "none",
             response |-> create_response("deploy_001", FALSE,
                              <<"Invalid deployment option">>, EmptyData) ]

\* One entry of the driver's log: the agent invoked, the context it was
\* handed and what its execute did.
Invocation(agent_id, context, o) ==
    [agent_id |-> agent_id, context |-> context, outcome |-> o]

\* run_workflow going on to the next step after a step that failed.
After_GoesOn(o, next) == IF o.raises THEN "returned" ELSE next

\* Where run_workflow goes on after a step: it returns when the step failed
\* (if not x_result["success"]: return) or raised (the except clauses).
After(o, next) == IF o.raises \/ ~o.success THEN "returned" ELSE next

\* The definition turns of a log: the invocations of the coordinator.
Turns(log) ==
    LET IsTurn(c) == c.agent_id = "coord_001" IN SelectSeq(log, IsTurn)

\* " ".join(texts)
RECURSIVE Join(_, _)
Join(texts, i) ==
    IF i > Len(texts) THEN << >>
    ELSE IF i = Len(texts) THEN texts[i]
    ELSE texts[i] \o << " " >> \o Join(texts, i + 1)

\* The project_requirements run_workflow has collected when the definition
\* loop ends: the last line that named a requirement, the conversation and
\* the user's lines joined.
project_requirements(log) ==
    LET turns == Turns(log)
        lines == [ i \in DOMAIN turns |-> turns[i].context.user_input ]
        described == { i \in DOMAIN lines :
                         \E w \in RequirementWords : In(w, lower(lines[i])) }
        conversation_history ==
            [ i \in 1..(2 * Len(turns)) |->
                IF i % 2 = 1
                  THEN [role |-> "user", content |-> lines[(i + 1) \div 2]]
                  ELSE [role |-> "assistant",
                        content |-> turns[i \div 2].outcome.message] ]
        collected == [ conversation_history |-> conversation_history,
                       user_description |-> Join(lines, 1) ]
    IN  IF described = {} THEN collected
        ELSE SetItem(collected, "description",
                     lines[CHOOSE i \in described : \A j \in described : j <= i])

\* x_result.get("data", {}) of the step the driver ran last with that agent.
DataOf(log, agent_id) ==
    LET IsOf(c) == c.agent_id = agent_id
        found == SelectSeq(log, IsOf)
    IN  found[Len(found)].outcome.data

\* The validation_results run_workflow collects from the results of the
\* standards, testing, documentation and ethics steps.
validation_results(log) ==
    [ standards_results |->
          Get(DataOf(log, "standards_001"), "standards_results", EmptyData),
      test_results |-> Get(DataOf(log, "test_001"), "test_results", EmptyData),
      documentation_results |-> DataOf(log, "doc_001"),
      security_results |->
          Get(DataOf(log, "ethics_001"), "review_results", EmptyData),
      ethics_results |->
          Get(DataOf(log, "ethics_001"), "review_results", EmptyData) ]

\* What a step of run_workflow leaves alone: the orchestrator, the validator
\* and the backups on disk.
DriverFrame == UNCHANGED << orchestrator_vars, validator_vars, backup_vars >>

\* A step of run_workflow that hands the context to an agent it does not
\* look into and goes on when the agent succeeds.
RunPlain(at, agent_id, next) ==
    /\ pc = at
    /\ \E o \in StepOutcomes :
          /\ invoked' = Append(invoked, Invocation(agent_id, shared_context, o))
          /\ pc' = After(o, next)
    /\ UNCHANGED << shared_context, deployment, held >>
    /\ DriverFrame

\* run_workflow, phase 0; main() has called initialize_agents before.
RunEnvironmentSetup ==
    Registered("env_001") /\ RunPlain("env", "env_001", "definition")

\* The definition loop leaving for the development only when the coordinator
\* has succeeded.
DefinitionRound_NeedsSuccess(line, o) ==
    LET user_input == strip(line)
        starts == In(StartDevelopment, lower(user_input)) /\ o.success
        handed == SetItem(shared_context, "user_input", user_input)
        log == Append(invoked, Invocation("coord_001", handed, o))
    IN  IF user_input = << >>
          THEN [ context |-> shared_context, pc |-> "definition", invoked |-> invoked ]
          ELSE [ context |-> IF ~o.raises /\ starts
                               THEN SetItem(handed, "project_requirements",
                                            project_requirements(log))
                               ELSE handed,
                 pc |-> IF o.raises THEN "returned"
                        ELSE IF starts THEN "architect"
                        ELSE "definition",
                 invoked |-> log ]

\* One round of the definition loop, on the line typed and on what the
\* coordinator does with it: a blank line is skipped, any other line is
\* handed to the coordinator under user_input, and the line that holds
\* "start development" ends the loop and stores project_requirements.
DefinitionRound(line, o) ==
    LET user_input == strip(line)
        starts == In(StartDevelopment, lower(user_input))
        handed == SetItem(shared_context, "user_input", user_input)
        log == Append(invoked, Invocation("coord_001", handed, o))
    IN  IF user_input = << >>
          THEN [ context |-> shared_context, pc |-> "definition", invoked |-> invoked ]
          ELSE [ context |-> IF ~o.raises /\ starts
                               THEN SetItem(handed, "project_requirements",
                                            project_requirements(log))
                               ELSE handed,
                 pc |-> IF o.raises THEN "returned"
                        ELSE IF starts THEN "architect"
                        ELSE "definition",
                 invoked |-> log ]

\* The user types a line in the definition loop; the loop takes at most
\* MaxTurns lines before the one that ends it.
DefinitionTurn(line) ==
    /\ pc = "definition"
    /\ \/ strip(line) = << >>
       \/ In(StartDevelopment, lower(strip(line)))
       \/ Len(Turns(invoked)) < MaxTurns
    /\ \E o \in StepOutcomes :
          LET t == DefinitionRound(line, o) IN
          /\ shared_context' = t.context
          /\ pc' = t.pc
          /\ invoked' = t.invoked
    /\ UNCHANGED << deployment, held >>
    /\ DriverFrame

RunArchitect == RunPlain("architect", "arch_001", "core")

\* The code generation: the agent keeps the context it is handed, and the
\* driver stores the files of its result under generated_files.
RunCoreLogic ==
    /\ pc = "core"
    /\ \E o \in CoreLogicAgent_execute :
          /\ invoked' = Append(invoked, Invocation("core_001", shared_context, o))
          /\ pc' = After(o, "backup")
          /\ shared_context' =
               IF o.success
                 THEN SetItem(shared_context, "generated_files",
                              Get(o.data, "generated_files", << >>))
                 ELSE shared_context
    /\ held' = held \cup ContextKeepers
    /\ UNCHANGED deployment
    /\ DriverFrame

RunBackup ==
    /\ pc = "backup"
    /\ \E o \in BackupAgent_execute(shared_context) :
          /\ invoked' = Append(invoked, Invocation("backup_001", shared_context, o))
          /\ pc' = After(o, "standards")
    /\ UNCHANGED << shared_context, deployment, held >>
    /\ DriverFrame

RunStandards == RunPlain("standards", "standards_001", "testing")
RunTesting == RunPlain("testing", "test_001", "documentation")
RunDocumentation == RunPlain("documentation", "doc_001", "ethics")
RunEthics == RunPlain("ethics", "ethics_001", "validation")

\* The driver stores the validation_results it has collected and hands the
\* context to the validator.
RunValidator ==
    /\ pc = "validation"
    /\ \E o \in StepOutcomes :
          LET handed == SetItem(shared_context, "validation_results",
                                validation_results(invoked))
          IN  /\ shared_context' = handed
              /\ invoked' = Append(invoked, Invocation("valid_001", handed, o))
              /\ pc' = After(o, "choose")
    /\ UNCHANGED << deployment, held >>
    /\ DriverFrame

\* One round of the deployment prompt: any line but 1, 2 or 3 is asked for
\* again; the choice is stored under deployment_choice and the context is
\* handed to the deployment agent.
ChooseDeployment(line) ==
    /\ pc = "choose"
    /\ LET choice == strip(line) IN
       IF choice \notin { << "1" >>, << "2" >>, << "3" >> }
         THEN UNCHANGED << shared_context, pc, invoked, deployment >>
         ELSE LET deployment_choice ==
                      IF choice = << "1" >> THEN "github"
                      ELSE IF choice = << "2" >> THEN "executable"
                      ELSE "source_only"
                  handed == SetItem(shared_context, "deployment_choice",
                                    deployment_choice)
              IN  \E package \in DeployResults(deployment_choice) :
                     LET d == DeploymentAgent_execute(handed, package) IN
                     /\ shared_context' = handed
                     /\ deployment' = [ choice |-> deployment_choice,
                                        deployed |-> d.deployed,
                                        response |-> d.response ]
                     /\ invoked' =
                          Append(invoked,
                                 Invocation("deploy_001", handed,
                                     [raises |-> FALSE,
                                      success |-> d.response.success,
                                      message |-> d.response.message,
                                      data |-> d.response.data]))
                     /\ pc' = "done"
    /\ UNCHANGED held
    /\ DriverFrame

\* The deployment agent handed a context by a caller other than run_workflow,
\* once run_workflow has delivered: a context without deployment_choice, or
\* with one of the three options or another value under it.
DeployByHand ==
    /\ pc = "done"
    /\ \E context \in {EmptyData}
              \cup { SetItem(EmptyData, "deployment_choice", c) :
                        c \in deployment_options \cup {"zip", "GitHub", "1", ""} } :
         \E package \in DeployResults(Get(context, "deployment_choice", "source_only")) :
            LET d == DeploymentAgent_execute(context, package) IN
            deployment' = [ choice |-> Get(context, "deployment_choice", NoInput),
                            deployed |-> d.deployed,
                            response |-> d.response ]
    /\ UNCHANGED << shared_context, pc, invoked, held >>
    /\ DriverFrame

\* BaseAgent.call_llm: the model answers, or the call fails and call_llm
\* raises "Model gpt-4o-mini unavailable. Please try again later.".
call_llm ==
    { [raises |-> FALSE, text |-> <<"Which features do you need?">>],
      [raises |-> TRUE,
       text |-> <<"Model ", "gpt-4o-mini", " unavailable. Please try again later.">>] }

\* CoordinatorAgent._analyze_and_respond: the model's answer, wrapped by
\* _finalize_project_definition when the user asks for the development to
\* start; an exception of call_llm is replaced by an apology.
_analyze_and_respond(user_input, llm) ==
    IF llm.raises
      THEN <<"I apologize, but I encountered an issue processing your request. Please try again.">>
    ELSE IF \/ In(StartDevelopment, lower(user_input))
            \/ In(<< "b", "e", "g", "i", "n", " ", "d", "e", "v", "e", "l", "o",
                     "p", "m", "e", "n", "t" >>, lower(user_input))
      THEN <<"Product Coordinator: ">> \o llm.text
             \o <<" Project scope confirmed and ready for development!">>
    ELSE llm.text

\* The coordinator letting a failure of the model through as a failure of
\* its own.
CoordinatorAgent_execute_Propagates(context, llm) ==
    LET user_input == Get(context, "user_input", << >>) IN
    IF user_input = << >>
      THEN [raises |-> FALSE, success |-> TRUE,
            message |-> <<"Product Coordinator: Hello!">>,
            data |-> [conversation_started |-> TRUE]]
    ELSE IF llm.raises
      THEN [raises |-> FALSE, success |-> FALSE,
            message |-> <<"Coordinator failed: ">> \o llm.text, data |-> EmptyData]
    ELSE [raises |-> FALSE, success |-> TRUE,
          message |-> _analyze_and_respond(user_input, llm),
          data |-> [conversation_updated |-> TRUE]]

\* CoordinatorAgent.execute: without a user_input it opens the conversation,
\* otherwise it answers with what _analyze_and_respond returns.  Nothing
\* under its own try raises, so its except clause is not taken.
CoordinatorAgent_execute(context, llm) ==
    LET user_input == Get(context, "user_input", << >>) IN
    IF user_input = << >>
      THEN [raises |-> FALSE, success |-> TRUE,
            message |-> <<"Product Coordinator: Hello!">>,
            data |-> [conversation_started |-> TRUE]]
      ELSE [raises |-> FALSE, success |-> TRUE,
            message |-> _analyze_and_respond(user_input, llm),
            data |-> [conversation_updated |-> TRUE]]

\* The behaviour of the agents when the orchestrator hands them the shared
\* context.  The steps of the running phase do what their execute does on it:
\* the coordinator answers with or without its model, or is a coordinator
\* that confirms the scope; the code generation, the backup and the validator
\* do what their execute does.  The others succeed.
ContextBehaviours ==
    IF workflow_state = "definition"
      THEN { [HappyBehaviour EXCEPT !["coord_001"] = c] :
               c \in {HappyBehaviour["coord_001"]}
                     \cup { CoordinatorAgent_execute(shared_context, llm) :
                              llm \in call_llm } }
    ELSE IF workflow_state = "development"
      THEN LET v == ValidatorAgent_execute(shared_context) IN
           { [HappyBehaviour EXCEPT
                 !["core_001"] = c, !["backup_001"] = b,
                 !["valid_001"] = [raises |-> FALSE, success |-> v.success,
                                   message |-> v.message, data |-> v.data]] :
               c \in CoreLogicAgent_execute, b \in BackupAgent_execute(shared_context) }
    ELSE {HappyBehaviour}

\* orchestrator.execute(self.context), before run_workflow is called or after
\* it has ended; the workflow is not paused and user_input is not read.
ExecuteOnContext ==
    /\ ~paused
    /\ pc \in {"env", "returned", "done"}
    /\ \E beh \in ContextBehaviours : Execute(NoInput, beh)

NextDriver ==
    \/ InitializeAgents
    \/ ExecuteOnContext
    \/ RunEnvironmentSetup
    \/ \E line \in DefinitionLines : DefinitionTurn(line)
    \/ RunArchitect
    \/ RunCoreLogic
    \/ RunBackup
    \/ RunStandards
    \/ RunTesting
    \/ RunDocumentation
    \/ RunEthics
    \/ RunValidator
    \/ \E line \in ChoiceLines : ChooseDeployment(line)
    \/ DeployByHand

\* The program as main() builds it: the agents initialised, the orchestrator
\* and run_workflow working on the one shared context.
SpecDriver == Init /\ [][NextDriver]_vars

\* A caller that drives the orchestrator itself stores the files it has under
\* generated_files of the context it hands over.
CallerStoresFiles ==
    /\ pc = "env"
    /\ \E files \in FileLists :
          shared_context' = SetItem(shared_context, "generated_files", files)
    /\ UNCHANGED << pc, invoked, deployment, held >>
    /\ DriverFrame

\* A caller that drives the orchestrator itself stores what the user typed
\* under user_input of the context it hands over.
CallerStoresInput ==
    /\ pc = "env"
    /\ \E line \in DefinitionLines :
          shared_context' = SetItem(shared_context, "user_input", strip(line))
    /\ UNCHANGED << pc, invoked, deployment, held >>
    /\ DriverFrame

\* A caller that drives the orchestrator itself stores the reviews it has
\* collected under validation_results of the context it hands over.
CallerStoresResults ==
    /\ pc = "env"
    /\ \E v \in {EmptyData}
                \cup { [security_results |-> << [key |-> file, value |-> review] >>] :
                         file \in Range(Files), review \in FileReviews } :
          shared_context' = SetItem(shared_context, "validation_results", v)
    /\ UNCHANGED << pc, invoked, deployment, held >>
    /\ DriverFrame

NextContext ==
    \/ InitializeAgents
    \/ Registered("env_001") /\ RegisterAgent(Agent("env_agent", "first"))
    \/ CallerStoresFiles
    \/ CallerStoresInput
    \/ CallerStoresResults
    \/ ExecuteOnContext

\* The orchestrator with the standard agents and "env_agent" registered,
\* executing on the shared context; run_workflow is not called.
SpecContext == Init /\ [][NextContext]_vars

\* ------------------------------------------------------------------ backups
\*
\* BackupAgent (src/agents/backup_agent.py) with the clock it reads and the
\* backup directories it creates and removes.  Time is counted in ticks; a
\* timestamp of the history (datetime.now().isoformat()) is the tick, since
\* isoformat strings of one length order as the times do, and the timestamp in
\* a backup path (strftime to the second) is the second the tick falls in.

\* How many backups are made, the last tick of the clock, and the largest
\* keep_count handed to cleanup_old_backups.
MaxBackups == 3
MaxTime == 3
MaxKeep == 2

\* The ticks of one second: the history's timestamps are finer than the
\* paths' are.
TicksPerSecond == 2

\* _create_backup: os.path.join(self.backup_dir, f"backup_{timestamp}") for the
\* time it reads; makedirs(backup_path, exist_ok=True) takes a directory that
\* is there already.
backup_path_at(t) == << "backups/backup_", t \div TicksPerSecond >>

\* _update_backup_history: the entry appended for a backup, stamped with the
\* time read then.
backup_entry(t, path, files_backed_up) ==
    [ timestamp |-> t, backup_path |-> path, files |-> files_backed_up,
      agent_id |-> "backup_001" ]

\* BackupAgent.execute on a context with the files under generated_files:
\* when it succeeds it has read the clock twice, at t1 for the path and at t2
\* for the history entry; when it fails it has stored nothing.
BackupExecute ==
    /\ Len(backup_history) < MaxBackups
    /\ \E files_to_backup \in FileLists, t1 \in clock..MaxTime :
         \E t2 \in t1..MaxTime,
            o \in BackupAgent_execute([generated_files |-> files_to_backup]) :
            IF o.success
              THEN /\ backup_dirs' = backup_dirs \cup {backup_path_at(t1)}
                   /\ backup_history' =
                        Append(backup_history,
                               backup_entry(t2, backup_path_at(t1), files_to_backup))
                   /\ clock' = t2
                   /\ backup_response' =
                        create_response("backup_001", TRUE, o.message,
                            [backup_path |-> backup_path_at(t1),
                             files_backed_up |-> files_to_backup])
              ELSE /\ backup_response' = AgentResponse("backup_001", o)
                   /\ UNCHANGED << backup_history, backup_dirs, clock >>
    /\ UNCHANGED << orchestrator_vars, held, validator_vars, driver_vars >>

\* sorted(self.backup_history, key=timestamp, reverse=True): the latest
\* first, entries of one timestamp in the order of the history (the sort is
\* stable).
sorted_backups(history) ==
    LET Rank(i) == Cardinality({ j \in DOMAIN history :
                                   \/ history[j].timestamp > history[i].timestamp
                                   \/ /\ history[j].timestamp = history[i].timestamp
                                      /\ j < i }) + 1
    IN  [ p \in DOMAIN history |-> history[CHOOSE i \in DOMAIN history : Rank(i) = p] ]

\* BackupAgent.cleanup_old_backups: the history and the directories it
\* leaves, and its response.
cleanup_old_backups(keep_count) ==
    IF Len(backup_history) <= keep_count
      THEN [ history |-> backup_history, dirs |-> backup_dirs,
             response |-> create_response("backup_001", TRUE, <<"No cleanup needed">>,
                              [backups_kept |-> Len(backup_history)]) ]
      ELSE LET sorted == sorted_backups(backup_history)
               backups_to_keep == SubSeq(sorted, 1, keep_count)
               backups_to_remove == SubSeq(sorted, keep_count + 1, Len(sorted))
               removed == { backups_to_remove[i].backup_path :
                              i \in DOMAIN backups_to_remove } \cap backup_dirs
           IN  [ history |-> backups_to_keep,
                 dirs |-> backup_dirs \ removed,
                 response |-> create_response("backup_001", TRUE,
                                  <<"Cleaned up ", ToString(Cardinality(removed)),
                                    " old backups">>,
                                  [backups_kept |-> Len(backups_to_keep),
                                   backups_removed |-> Cardinality(removed)]) ]

CleanupOldBackups(keep_count) ==
    LET c == cleanup_old_backups(keep_count) IN
    /\ backup_history' = c.history
    /\ backup_dirs' = c.dirs
    /\ backup_response' = c.response
    /\ UNCHANGED clock
    /\ UNCHANGED << orchestrator_vars, held, validator_vars, driver_vars >>

NextBackup ==
    \/ BackupExecute
    \/ \E keep_count \in 0..MaxKeep : CleanupOldBackups(keep_count)

\* The backup agent, called by hand.
SpecBackup == Init /\ [][NextBackup]_vars

\* ---------------------------------------------------------------- properties

\* The last call was an execute that found the workflow paused and rejected
\* its input.
IsRejection ==
    /\ "data" \in DOMAIN result
    /\ "paused" \in DOMAIN result.data

\* The calls of the last operation that returned success=false.
FailedCalls == { i \in DOMAIN calls : ~calls[i].outcome.raises /\ ~calls[i].outcome.success }

\* str.lower on the user inputs of the model.
Lower(u) == IF u \in {"Try again", "try again", "TRY AGAIN"} THEN "try again" ELSE u

\* C1: on a fresh orchestrator with the standard agents registered under their
\* own ids, when every agent succeeds and the coordinator asserts
\* project_defined, the k-th execute call leaves workflow_state at the k-th
\* phase after initializing, and the fourth ends in completed.
C1_HappyPathReachesCompleted ==
    happy >= 0 => workflow_state = PhaseOrder[happy + 1]

\* C2: an execute call in which a step returns success=false with the
\* recoverable message "tool unavailable" ends paused, with that message as
\* pause_reason, in the phase that was running.
C2_RecoverableFailurePauses ==
    [][ (~paused /\ FailedCalls' # {}
         /\ \A i \in FailedCalls' : calls'[i].outcome.message = <<"tool unavailable">>)
        => /\ paused'
           /\ pause_reason' = <<"tool unavailable">>
           /\ workflow_state' = workflow_state ]_vars

\* C3: while paused, every execute call whose user_input is not the resume
\* command returns success=false with the stored pause reason, invokes no
\* agent and leaves workflow_state, paused and pause_reason as they are,
\* whatever the agents would do.
C3_PausedRejectsNonResume ==
    paused =>
      \A u \in UserInputs \ {ResumeCommand}, beh \in Behaviours :
         LET e == execute(u, beh) IN
         /\ e.result.success = FALSE
         /\ e.result.data.reason = pause_reason
         /\ e.result.message =
              <<"Workflow paused: ">> \o Str(pause_reason)
                  \o <<". Type 'Try again' to resume.">>
         /\ e.calls = <<>>
         /\ e.workflow_state = workflow_state
         /\ e.paused = paused
         /\ e.pause_reason = pause_reason

C3_Witness ==
    /\ IsRejection /\ paused
    /\ workflow_state = "development"
    /\ result.data.reason = <<"tool unavailable">>

\* C4: every rejected input is answered with the reason stored when the pause
\* began, whatever operations came in between.
C4_OriginalReasonEchoed ==
    IsRejection => result.data.reason = origReason

\* C5: while paused, an execute call whose user_input is "Try again" in any
\* letter case clears paused.
C5_ResumeCaseInsensitive ==
    [][ \A u \in UserInputs :
          (paused /\ Lower(u) = Lower(ResumeCommand) /\ Execute(u, HappyBehaviour))
             => ~paused' ]_vars

\* C6: paused goes from true to false only in a resume (execute with the
\* resume command, or resume_workflow), and the resume sets pause_reason to
\* None.
C6_OnlyResumeClearsPause ==
    [][ (paused /\ ~paused')
          => /\ pause_reason' = NoneVal
             /\ \/ ResumeWorkflow
                \/ \E beh \in ExecuteBehaviours : Execute(ResumeCommand, beh) ]_vars

C6_Witness ==
    /\ "data" \in DOMAIN result /\ "resumed" \in DOMAIN result.data
    /\ ~paused /\ pause_reason = NoneVal
    /\ workflow_state = "delivery"

C8_PhaseOrder ==
    [][ workflow_state' # workflow_state
          => \E i \in 1..(Len(PhaseOrder) - 1) :
                workflow_state = PhaseOrder[i] /\ workflow_state' = PhaseOrder[i + 1] ]_vars

C8_Witness ==
    workflow_state = "completed" /\ Len(calls) = 1 /\ calls[1].agent_id = "repo_001"

\* C9: the definition phase is left, for development, only by a call in which
\* the coordinator returned success=true with data.project_defined; a call in
\* which it returned success=true without the flag stays in definition.
C9_DefinitionGate ==
    [][ /\ (workflow_state = "definition" /\ workflow_state' # workflow_state)
           => /\ workflow_state' = "development"
              /\ Len(calls') = 1
              /\ calls'[1].agent_id = "coord_001"
              /\ ~calls'[1].outcome.raises
              /\ calls'[1].outcome.success
              /\ Get(calls'[1].outcome.data, "project_defined", FALSE)
        /\ (workflow_state = "definition" /\ calls' # <<>>
              /\ ~calls'[1].outcome.raises /\ calls'[1].outcome.success
              /\ ~Get(calls'[1].outcome.data, "project_defined", FALSE))
           => /\ workflow_state' = "definition"
              /\ result' = AgentResponse("coord_001", calls'[1].outcome) ]_vars

C9_Witness ==
    /\ workflow_state = "definition"
    /\ calls = << Call("coord_001", OkOutcome) >>
    /\ result.success

\* C10: when the k-th registered step of the running phase is the first to
\* return success=false, the call invoked the first k registered steps once
\* each, in order, invoked no later step, and the failure it returns names
\* step k and carries its message.
C10_ExactOnceShortCircuit ==
    FailedCalls # {} =>
      LET k == CHOOSE i \in FailedCalls : \A j \in FailedCalls : i <= j
          steps == RegisteredSteps(workflow_state)
      IN  /\ Len(calls) = k
          /\ k <= Len(steps)
          /\ \A i \in 1..k : calls[i].agent_id = steps[i]
          /\ \A i \in 1..(k - 1) : ~calls[i].outcome.raises /\ calls[i].outcome.success
          /\ result.success = FALSE
          /\ IF workflow_state = "development"
               THEN \E i \in DOMAIN dev_steps :
                      /\ dev_steps[i].agent_id = calls[k].agent_id
                      /\ result.message =
                           <<"Development step failed: ", dev_steps[i].agent_name, " - ">>
                               \o calls[k].outcome.message
               ELSE result = AgentResponse(calls[k].agent_id, calls[k].outcome)

C10_Witness ==
    /\ FailedCalls = {5}
    /\ workflow_state = "development"
    /\ calls[5].agent_id = "test_001"

\* No agent appears twice in a call log.
NoRepeat(log) == \A i, j \in DOMAIN log : log[i].agent_id = log[j].agent_id => i = j

\* C11: an execute call whose phase run ends with success=false for a reason
\* other than the recoverable "tool unavailable" (a step returned
\* success=false, or the phase's agent is not registered) returns
\* success=false, leaves workflow_state as it was, and invokes no agent twice:
\* the failed step is the last one it invoked.
C11_FailedPhaseStays ==
    [][ /\ (~paused /\ FailedCalls' # {}
              /\ \A i \in FailedCalls' : calls'[i].outcome.message # <<"tool unavailable">>)
           => /\ result'.success = FALSE
              /\ workflow_state' = workflow_state
              /\ NoRepeat(calls')
              /\ FailedCalls' = {Len(calls')}
        /\ (~paused /\ "success" \in DOMAIN result' /\ ~result'.success
              /\ \A i \in FailedCalls' : calls'[i].outcome.message # <<"tool unavailable">>)
           => /\ workflow_state' = workflow_state
              /\ NoRepeat(calls') ]_vars

C11_Witness ==
    /\ workflow_state = "development"
    /\ FailedCalls = {2}
    /\ calls[2].outcome.message = <<"syntax error in module X">>
    /\ result.success = FALSE

\* C12 (as stated): once workflow_state is completed, every execute call
\* invokes no agent, leaves workflow_state at completed, and either returns
\* success=false or changes nothing at all.
C12_CompletedRejectsAll ==
    workflow_state = "completed" =>
      \A u \in UserInputs, beh \in Behaviours :
         LET e == execute(u, beh) IN
         /\ e.calls = <<>>
         /\ e.workflow_state = "completed"
         /\ \/ e.result.success = FALSE
            \/ (e.paused = paused /\ e.pause_reason = pause_reason)

\* A response of execute: a response that is not the one of
\* handle_model_unavailable.
IsExecuteResponse(r) ==
    /\ "success" \in DOMAIN r
    /\ "model_unavailable" \notin DOMAIN r.data

\* C12 (amended): once workflow_state is completed it stays completed under
\* every operation and no operation invokes an agent; an execute call returns
\* success=false and changes nothing, except the resume command given while
\* paused, which returns success=true and only clears the pause.
C12_CompletedTerminal ==
    [][ workflow_state = "completed" =>
          /\ workflow_state' = "completed"
          /\ calls' = <<>>
          /\ IsExecuteResponse(result') =>
                IF result'.success
                  THEN /\ paused /\ ~paused' /\ pause_reason' = NoneVal
                       /\ "resumed" \in DOMAIN result'.data
                  ELSE paused' = paused /\ pause_reason' = pause_reason ]_vars

C12_Witness ==
    /\ workflow_state = "completed"
    /\ "message" \in DOMAIN result
    /\ result.message = <<"Unknown workflow state: ", "completed">>

\* The place of a registered agent in the registration order.
RegistrationIndex(key) == CHOOSE i \in DOMAIN agents : agents[i] = key

\* C14 (as stated): the agents a run invoked were invoked in the order in
\* which they were registered.
C14_RegistrationOrder ==
    \A i, j \in DOMAIN calls :
       i < j => RegistrationIndex(calls[i].agent_id) < RegistrationIndex(calls[j].agent_id)

\* C14 (amended): the agents a run invokes are the first registered steps of
\* the running phase in the phase's own fixed order (for development the order
\* of dev_steps), whatever the order in which they were registered.
C14_FixedListOrder ==
    [][ calls' # <<>> =>
          LET steps == RegisteredSteps(workflow_state) IN
          /\ Len(calls') <= Len(steps)
          /\ CallIds(calls') = SubSeq(steps, 1, Len(calls')) ]_vars

C14_Witness ==
    /\ workflow_state = "delivery"
    /\ CallIds(calls) = << "arch_001", "core_001" >>
    /\ RegistrationIndex("core_001") < RegistrationIndex("arch_001")

\* The last call was get_workflow_status.
IsStatus == "registered_agents" \in DOMAIN result

DevelopmentOrder ==
    << "arch_001", "core_001", "backup_001", "standards_001", "test_001",
       "doc_001", "ethics_001", "valid_001" >>

\* The place of a development step in that order.
DevelopmentIndex(agent_id) ==
    CHOOSE k \in DOMAIN DevelopmentOrder : DevelopmentOrder[k] = agent_id

\* Call i of a log was made after a call of agent_id that returned success=true.
SucceededBefore(log, i, agent_id) ==
    \E j \in 1..(i - 1) :
       /\ log[j].agent_id = agent_id
       /\ ~log[j].outcome.raises /\ log[j].outcome.success

\* C13 (as stated): a run of the development phase invokes steps in the order
\* arch_001, core_001, backup_001, standards_001, test_001, doc_001,
\* ethics_001, valid_001, and each step it invokes comes after a successful
\* call, in the same run, of every step before it in that order.
C13_EveryEarlierStepSucceeded ==
    [][ workflow_state = "development" =>
          /\ \A i, j \in DOMAIN calls' :
                i < j => DevelopmentIndex(calls'[i].agent_id)
                           < DevelopmentIndex(calls'[j].agent_id)
          /\ \A i \in DOMAIN calls' :
                \A m \in 1..(DevelopmentIndex(calls'[i].agent_id) - 1) :
                   SucceededBefore(calls', i, DevelopmentOrder[m]) ]_vars

\* C13 (amended): the same, for every registered step before it in that
\* order; a step that is not registered is passed over and does not hold back
\* the steps after it.
C13_EveryEarlierRegisteredStepSucceeded ==
    [][ workflow_state = "development" =>
          /\ \A i, j \in DOMAIN calls' :
                i < j => DevelopmentIndex(calls'[i].agent_id)
                           < DevelopmentIndex(calls'[j].agent_id)
          /\ \A i \in DOMAIN calls' :
                \A m \in 1..(DevelopmentIndex(calls'[i].agent_id) - 1) :
                   Registered(DevelopmentOrder[m])
                      => SucceededBefore(calls', i, DevelopmentOrder[m])
          /\ \A i \in DOMAIN calls' : Registered(calls'[i].agent_id) ]_vars

C13_Witness ==
    /\ workflow_state = "development"
    /\ CallIds(calls) = DevelopmentOrder
    /\ FailedCalls = {Len(DevelopmentOrder)}

\* The last call did not return normally: register_agent, pause_workflow and
\* resume_workflow return nothing when they succeed.
CallFailed(r) == r # NoResult

\* C15: a register_agent call with an agent whose agent_id is already a key
\* of the registry fails, and the registry keeps the object it held.
C15_DuplicateRegistrationFails ==
    [][ \A agent \in Range(RegistryAgents) :
          (Registered(agent.agent_id) /\ RegisterAgent(agent))
             => /\ CallFailed(result')
                /\ agents' = agents
                /\ agent_objects' = agent_objects ]_vars

\* C16: once execute has been called, every register_agent call fails and
\* the registry (its keys and the objects under them) never changes again.
C16_RegistrySealedAfterFirstRun ==
    [][ started =>
          /\ agents' = agents
          /\ agent_objects' = agent_objects
          /\ \A agent \in Range(RegistryAgents) :
                RegisterAgent(agent) => CallFailed(result') ]_vars

\* The validator has run; its report.
Validated == validation_response # NoResult
Report == validation_response.data.validation_results

\* The validation results the validator was handed.
HandedResults == Get(validation_context, "validation_results", EmptyData)

\* Some issue string recorded under a failed criterion of the report contains
\* a critical keyword, in whatever letter case.
HasCriticalIssue ==
    \E c \in DOMAIN Report.criteria :
       /\ ~Report.criteria[c].passed
       /\ \E i \in DOMAIN Report.criteria[c].issues :
             \E k \in DOMAIN critical_keywords :
                In(critical_keywords[k], lower(Report.criteria[c].issues[i]))

\* The findings among the handed results whose issue string holds a critical
\* keyword: a tool that is not clean and reports a syntax error (in small
\* letters or with capitals), or an unsafe file whose path contains "broken".
HandedCriticalFinding ==
    \/ \E i \in DOMAIN Get(HandedResults, "standards_results", <<>>) :
          LET item == HandedResults.standards_results[i] IN
          /\ item.value.status # "clean"
          /\ "message" \in DOMAIN item.value
          /\ item.value.message \in {SyntaxMessage, SyntaxMessageCapitals}
    \/ \E key \in {"security_results", "ethics_results"} :
          \E i \in DOMAIN Get(HandedResults, key, <<>>) :
             /\ ~HandedResults[key][i].value.overall_safe
             /\ HandedResults[key][i].key = Files[Len(Files)]

\* C18: the report has approved=false exactly when an issue string of one of
\* its failed criteria contains a critical keyword in any letter case; of the
\* handed findings, "3 minor style warnings", a missing message, missing
\* documentation, failed tests and an unsafe app.py never block approval,
\* while "syntax error in module X", "Syntax Error in module X" and an unsafe
\* broken_link.py always do.  The response's success is the approval.
C18_ApprovalBlockedByCriticalOnly ==
    Validated =>
      /\ Report.approved = ~HasCriticalIssue
      /\ Report.approved = ~HandedCriticalFinding
      /\ validation_response.success = Report.approved
      /\ ~Report.approved => Report.issues # <<>>

C18_Witness ==
    /\ Validated
    /\ ~Report.approved
    /\ "standards_results" \in DOMAIN HandedResults
    /\ \E i \in DOMAIN HandedResults.standards_results :
          /\ "message" \in DOMAIN HandedResults.standards_results[i].value
          /\ HandedResults.standards_results[i].value.message = SyntaxMessageCapitals
          /\ HandedResults.standards_results[i].value.status = "has_issues"
    /\ "security_results" \notin DOMAIN HandedResults
    /\ "ethics_results" \notin DOMAIN HandedResults

\* A report that approves although a tool reported three minor style warnings.
C18_StyleWarningsApproved ==
    /\ Validated
    /\ Report.approved
    /\ ~Report.criteria["code_quality"].passed
    /\ Report.criteria["code_quality"].issues
         = << Tools[1] \o <<":", " ">> \o StyleMessage >>

\* The entry of the validation results a criterion is judged on;
\* functionality is judged on none.
EntryOf(criterion) ==
    IF criterion = "code_quality" THEN {"standards_results"}
    ELSE IF criterion = "documentation" THEN {"documentation_results"}
    ELSE IF criterion = "testing" THEN {"test_results"}
    ELSE IF criterion = "security" THEN {"security_results"}
    ELSE IF criterion = "ethics" THEN {"ethics_results"}
    ELSE {}

\* No data was recorded for the criterion: its entry is missing or empty.
NoData(criterion) ==
    \A key \in EntryOf(criterion) :
       key \in DOMAIN HandedResults => Empty(HandedResults[key])

\* C19: when no data at all was handed to the validator (no validation
\* results, or only empty entries), the report has approved=true, holds the
\* six criteria with passed=true and no issues each, and its issues list is
\* empty.
C19_EmptyInputApproved ==
    (Validated /\ \A c \in Range(validation_criteria) : NoData(c)) =>
       /\ Report.approved
       /\ validation_response.success
       /\ DOMAIN Report.criteria = Range(validation_criteria)
       /\ \A c \in DOMAIN Report.criteria :
             Report.criteria[c].passed /\ Report.criteria[c].issues = <<>>
       /\ Report.issues = <<>>

C19_Witness ==
    /\ Validated
    /\ "validation_results" \in DOMAIN validation_context
    /\ DOMAIN HandedResults = {}
    /\ Report.approved
    /\ Report.criteria["testing"].passed

\* C20: every criterion for which no data was recorded has passed=true and
\* carries a recommendation, and each recommendation it carries is among the
\* report's recommendations.
C20_MissingDataAdvised ==
    Validated =>
      \A c \in Range(validation_criteria) :
         NoData(c) =>
            LET advice == Report.criteria[c].recommendations IN
            /\ Report.criteria[c].passed
            /\ advice # <<>>
            /\ \A i \in DOMAIN advice :
                  \E j \in DOMAIN Report.recommendations :
                     Report.recommendations[j] = advice[i]

\* The last agent of a call log raised.
LastRaised(log) == log # <<>> /\ log[Len(log)].outcome.raises

\* The registry lookup of the setup phase fails: the phase passes its check
\* of "env_agent" and then looks up "env_001".
LookupFails ==
    /\ ~paused /\ workflow_state = "initializing"
    /\ Registered("env_agent") /\ ~Registered("env_001")

\* C24: when an agent's execute raises during an execute call of the
\* orchestrator, or the registry lookup of the setup phase raises, the call
\* returns a response with success=false and a message, and workflow_state,
\* paused and pause_reason are what they were before the call.
C24_FaultContained ==
    [][ (LastRaised(calls') \/ (LookupFails /\ ExecuteCall))
          => /\ IsExecuteResponse(result')
             /\ result'.success = FALSE
             /\ result'.message # <<>>
             /\ result'.message[1] = "Workflow execution failed: "
             /\ workflow_state' = workflow_state
             /\ paused' = paused
             /\ pause_reason' = pause_reason ]_vars

\* A step of the development phase has raised and the call has answered.
C24_Witness ==
    /\ workflow_state = "development"
    /\ LastRaised(calls)
    /\ IsExecuteResponse(result)
    /\ result.message = <<"Workflow execution failed: ", "boom">>

\* A message that is not the empty string.
NonEmpty(message) == \E i \in DOMAIN message : message[i] # ""

\* C25: a response with success=false returned by execute carries a non-empty
\* message, provided every failure response returned by an agent during the
\* call carries a non-empty message.
C25_FailureHasMessage ==
    (/\ IsExecuteResponse(result)
     /\ result.success = FALSE
     /\ \A i \in FailedCalls : NonEmpty(calls[i].outcome.message))
       => NonEmpty(result.message)

\* The coordinator has failed with a message of its own and execute has handed
\* the coordinator's response back as it is.
C25_Witness ==
    /\ workflow_state = "definition"
    /\ FailedCalls = {1}
    /\ IsExecuteResponse(result)
    /\ result = AgentResponse("coord_001", calls[1].outcome)
    /\ result.message = <<"syntax error in module X">>

\* The place of a workflow state in the order of the phases.
PhaseIndex(state) == CHOOSE i \in DOMAIN PhaseOrder : PhaseOrder[i] = state

\* C28: one execute call leaves workflow_state where it was or moves it to the
\* phase that follows, and every agent it invokes is a step of the phase the
\* call began in: no step of a following phase runs in the same call.
C28_OnePhasePerCall ==
    [][ IsExecuteResponse(result')
          => /\ \/ workflow_state' = workflow_state
                \/ PhaseIndex(workflow_state') = PhaseIndex(workflow_state) + 1
             /\ \A i \in DOMAIN calls' :
                   calls'[i].agent_id \in Range(PhaseSequence(workflow_state)) ]_vars

\* The development phase has run all its steps and moved the workflow to
\* delivery; the delivery step has not run.
C28_Witness ==
    /\ workflow_state = "delivery"
    /\ IsExecuteResponse(result)
    /\ result.data = [next_phase |-> "delivery"]
    /\ CallIds(calls) = PhaseSequence("development")

\* The audit trail of a call log: each step invoked with the response it
\* returned, in the order of the invocations.
AuditTrail(log) ==
    [ i \in DOMAIN log |->
        << log[i].agent_id, AgentResponse(log[i].agent_id, log[i].outcome) >> ]

\* Every step of the last execute call returned success=true.
AllSucceeded ==
    /\ IsExecuteResponse(result)
    /\ calls # <<>>
    /\ \A i \in DOMAIN calls : ~calls[i].outcome.raises /\ calls[i].outcome.success

\* C23: when every step an execute call ran has succeeded, the response of the
\* call has success=true and holds the steps' responses, in the order in which
\* the steps ran, under data.outcomes.
C23_AuditTrailReturned ==
    AllSucceeded
       => /\ result.success
          /\ "outcomes" \in DOMAIN result.data
          /\ result.data.outcomes = AuditTrail(calls)

\* The phases that have steps, and the phase that follows each.
RunningPhases == { PhaseOrder[i] : i \in 1..HappyCalls }
NextPhase(state) == PhaseOrder[PhaseIndex(state) + 1]

\* C27: an execute call made while the workflow is not paused, in a phase
\* none of whose steps is registered, invokes no agent, returns success=true
\* and moves workflow_state to the phase that follows.
C27_EmptyPhaseSucceeds ==
    [][ (/\ ~paused
         /\ workflow_state \in RunningPhases
         /\ RegisteredSteps(workflow_state) = <<>>
         /\ IsExecuteResponse(result'))
          => /\ calls' = <<>>
             /\ result'.success
             /\ workflow_state' = NextPhase(workflow_state) ]_vars

FilesReaders == {"backup_001", "standards_001", "test_001", "ethics_001"}

\* A step returned success=true.
Succeeded(o) == ~o.raises /\ o.success

\* In a log of run_workflow, a step in readers that follows the code
\* generation was handed the generated files under generated_files.
HandedOnByDriver(log, readers) ==
    \A i, j \in DOMAIN log :
       (/\ i < j
        /\ log[i].agent_id = "core_001" /\ Succeeded(log[i].outcome)
        /\ log[j].agent_id \in readers)
         => /\ "generated_files" \in DOMAIN log[j].context
            /\ log[j].context.generated_files = log[i].outcome.data.generated_files

\* The same in a call log of the orchestrator, whose steps are all handed the
\* one context.
HandedOnByOrchestrator(log, context) ==
    \A i, j \in DOMAIN log :
       (/\ i < j
        /\ log[i].agent_id = "core_001" /\ Succeeded(log[i].outcome)
        /\ "generated_files" \in DOMAIN log[i].outcome.data
        /\ log[j].agent_id \in FilesReaders)
         => /\ "generated_files" \in DOMAIN context
            /\ context.generated_files = log[i].outcome.data.generated_files

\* C21: in a development run, by run_workflow or by the orchestrator, once the
\* code generation has succeeded, the backup, standards, testing and ethics
\* steps that follow it are handed a context whose generated_files are the
\* generated_files of the code generation's outcome.
C21_GeneratedFilesHandedOn ==
    [][ /\ HandedOnByDriver(invoked', FilesReaders)
        /\ ExecuteOnContext => HandedOnByOrchestrator(calls', shared_context) ]_vars

\* C22: no step of the program removes a key from the shared context: the
\* keys of the context after a step include the keys before it.
C22_ContextGrows ==
    [][ DOMAIN shared_context \subseteq DOMAIN shared_context' ]_vars

\* run_workflow has delivered and the context holds every key it stores.
C22_Witness ==
    /\ pc = "done"
    /\ DOMAIN shared_context =
         { "user_input", "project_requirements", "generated_files",
           "validation_results", "deployment_choice" }
    /\ started

\* C29: the deployment_choice run_workflow stores is one of github,
\* executable and source_only, and run_workflow does not get past the
\* deployment prompt without storing one; handed any other value, the
\* deployment agent makes no deployment and returns success=false.
C29_ChoiceClosed ==
    /\ "deployment_choice" \in DOMAIN shared_context
          => shared_context.deployment_choice \in deployment_options
    /\ pc = "done" => "deployment_choice" \in DOMAIN shared_context
    /\ (deployment # NoResult /\ deployment.choice \notin deployment_options \cup {NoInput})
          => /\ deployment.deployed = "none"
             /\ deployment.response.success = FALSE

\* run_workflow has delivered on a choice typed with blanks around it, and
\* the deployment agent has then turned down a choice it does not know.
C29_Witness ==
    /\ pc = "done"
    /\ shared_context.deployment_choice = "executable"
    /\ deployment.choice = "GitHub"
    /\ deployment.deployed = "none"
    /\ deployment.response.message = <<"Invalid deployment option">>

\* C30: no agent object holds the context once its execute has returned.
C30_NoContextKept == held = {}

\* The registry has no entry under "env_agent", as after initialize_agents,
\* which registers every agent under its own id.
NoEnvAgentKey == ~Registered("env_agent")

\* C31: workflow_state leaves initializing only in a step in which the
\* registry holds both "env_agent" and "env_001" and the agent under
\* "env_001", the only one invoked, has succeeded; while the registry has no
\* "env_agent" key, every execute call that runs the setup phase returns
\* success=false "Environment agent not registered", invokes no agent and
\* leaves workflow_state at initializing.
C31_SetupNeedsBothKeys ==
    [][ /\ (workflow_state = "initializing" /\ workflow_state' # "initializing")
             => /\ Registered("env_agent") /\ Registered("env_001")
                /\ workflow_state' = "definition"
                /\ Len(calls') = 1
                /\ calls'[1].agent_id = "env_001"
                /\ ~calls'[1].outcome.raises
                /\ calls'[1].outcome.success
        /\ (~paused /\ workflow_state = "initializing" /\ NoEnvAgentKey /\ ExecuteCall)
             => /\ result' = create_response(OrchId, FALSE,
                                <<"Environment agent not registered">>, EmptyData)
                /\ calls' = <<>>
                /\ workflow_state' = "initializing" ]_vars

\* The registry of initialize_agents has been handed an execute call, which
\* was refused for the missing key.
C31_Witness ==
    /\ agents = StandardAgents
    /\ workflow_state = "initializing"
    /\ started
    /\ IsExecuteResponse(result)
    /\ result.message = <<"Environment agent not registered">>
    /\ calls = <<>>

\* The reason handle_model_unavailable stores for a model.
ModelReason(m) == <<"Model ", m, " unavailable">>

\* C32: handle_model_unavailable(m), in whatever state it is called, leaves
\* the workflow paused with pause_reason "Model m unavailable", returns
\* success=false, and leaves workflow_state and the registry as they were;
\* an execute call made next with any input but the resume command returns
\* success=false with that reason, in its data and in its message.
C32_ModelUnavailablePauses ==
    [][ \A m \in Models :
          HandleModelUnavailable(m) =>
            /\ paused'
            /\ pause_reason' = ModelReason(m)
            /\ result'.success = FALSE
            /\ workflow_state' = workflow_state
            /\ agents' = agents
            /\ agent_objects' = agent_objects
            /\ \A u \in UserInputs \ {ResumeCommand} :
                  LET e == execute(u, HappyBehaviour)' IN
                  /\ e.result.success = FALSE
                  /\ e.result.data.reason = ModelReason(m)
                  /\ e.result.message =
                       <<"Workflow paused: ">> \o ModelReason(m)
                           \o <<". Type 'Try again' to resume.">>
                  /\ e.calls = <<>> ]_vars

\* handle_model_unavailable has been called in the middle of the development
\* phase, on a workflow that was running.
C32_Witness ==
    /\ workflow_state = "development"
    /\ paused
    /\ pause_reason = ModelReason("gpt-4o-mini")
    /\ origReason = ModelReason("gpt-4o-mini")
    /\ "success" \in DOMAIN result
    /\ "model_unavailable" \in DOMAIN result.data

\* The invocations of development agents in the driver's log.
DevInvoked(log) ==
    LET IsDev(c) == IsDevStep(c.agent_id) IN SelectSeq(log, IsDev)

\* The development section of run_workflow has ended: it has been left
\* after a step that failed or raised, or after the validator.
DevelopmentEnded ==
    /\ DevInvoked(invoked) # << >>
    /\ pc \in {"returned", "choose", "done"}

\* The step outcomes the driver has met, with outcome x for every agent it
\* has not invoked.
OutcomesMet(log, x) ==
    [ a \in AgentIds |->
        IF \E i \in DOMAIN log : log[i].agent_id = a
          THEN (CHOOSE c \in Range(log) : c.agent_id = a).outcome
          ELSE x ]

\* C33: with all eight development agents registered, whenever the
\* development section of run_workflow has ended, _execute_development_phase
\* run on the step outcomes the driver met (and on any outcome for the agents
\* the driver did not get to) invokes the same agents in the same order with
\* the same outcomes, and it ends without success exactly when the driver
\* returned early.
C33_DriversAgree ==
    DevelopmentEnded =>
      \A x \in Outcomes :
         LET log == DevInvoked(invoked)
             r == _execute_development_phase(OutcomesMet(log, x))
         IN  /\ r.calls = [ i \in DOMAIN log |-> Call(log[i].agent_id, log[i].outcome) ]
             /\ (r.raised \/ ~r.result.success) <=> (pc = "returned")

\* Both drivers stop after the standards step, the fourth, which failed.
C33_Witness ==
    /\ pc = "returned"
    /\ CallIds(DevInvoked(invoked))
         = << "arch_001", "core_001", "backup_001", "standards_001" >>
    /\ ~invoked[Len(invoked)].outcome.success
    /\ ~invoked[Len(invoked)].outcome.raises
    /\ \A a \in Range(CallIds(DevInvoked(invoked))) : Registered(a)

\* A line that holds "start development" in whatever case.
StartsDevelopment(line) == In(StartDevelopment, lower(line))

\* C34: in the definition loop of run_workflow, whatever the coordinator
\* returns, a blank line invokes nothing and leaves the loop where it is,
\* any other line invokes the coordinator once, with that line as user_input,
\* and the loop is left for the development exactly on a line that holds
\* "start development" in any case, whether the coordinator reported success
\* or failure.
C34_DefinitionLoop ==
    pc = "definition" =>
      \A line \in DefinitionLines, o \in StepOutcomes :
         LET t == DefinitionRound(line, o) IN
         /\ t.pc = "architect" => StartsDevelopment(line)
         /\ strip(line) = << >> =>
               /\ t.invoked = invoked
               /\ t.pc = "definition"
         /\ strip(line) # << >> =>
               /\ Len(t.invoked) = Len(invoked) + 1
               /\ SubSeq(t.invoked, 1, Len(invoked)) = invoked
               /\ t.invoked[Len(t.invoked)].agent_id = "coord_001"
               /\ t.invoked[Len(t.invoked)].context.user_input = strip(line)
         /\ ~o.raises => (t.pc = "architect" <=> StartsDevelopment(line))
         /\ t.pc # "architect" => "project_requirements" \notin DOMAIN t.context

\* The development has started on the line " Start Development " although the
\* coordinator answered it with success=false, after an earlier line.
C34_Witness ==
    /\ pc = "architect"
    /\ Len(Turns(invoked)) = 2
    /\ invoked[Len(invoked)].agent_id = "coord_001"
    /\ ~invoked[Len(invoked)].outcome.success
    /\ StartsDevelopment(invoked[Len(invoked)].context.user_input)
    /\ "project_requirements" \in DOMAIN shared_context

\* The model of the coordinator is unavailable: call_llm raises.
Unavailable == CHOOSE llm \in call_llm : llm.raises

\* The apology that replaces the failure of the model.
Apology ==
    <<"I apologize, but I encountered an issue processing your request. Please try again.">>

\* C35: with its model unavailable the coordinator returns success=true on
\* every context, without data.project_defined, and an execute call of the
\* orchestrator that runs the definition phase on that outcome returns the
\* coordinator's response with success=true, invokes the coordinator alone,
\* does not pause and leaves workflow_state at definition.
C35_ModelFailureHidden ==
    LET o == CoordinatorAgent_execute(shared_context, Unavailable)
        e == execute(NoInput, [HappyBehaviour EXCEPT !["coord_001"] = o])
    IN  /\ o.success /\ ~o.raises
        /\ "project_defined" \notin DOMAIN o.data
        /\ "user_input" \in DOMAIN shared_context /\ shared_context.user_input # << >>
              => o.message = Apology
        /\ (workflow_state = "definition" /\ ~paused) =>
              /\ e.result = AgentResponse("coord_001", o)
              /\ e.result.success
              /\ CallIds(e.calls) = << "coord_001" >>
              /\ ~e.paused
              /\ e.pause_reason = pause_reason
              /\ e.workflow_state = "definition"

\* The orchestrator has run the definition phase on the line that asks for
\* the development to start, while the model was unavailable, and has
\* returned the apology as a success.
C35_Witness ==
    /\ workflow_state = "definition"
    /\ StartsDevelopment(Get(shared_context, "user_input", << >>))
    /\ CallIds(calls) = << "coord_001" >>
    /\ calls[1].outcome.message = Apology
    /\ IsExecuteResponse(result)
    /\ result.success
    /\ result.message = Apology
    /\ ~paused

\* The aggregate report in the response of the validator.
Aggregate(response) == response.data.validation_results

\* C36: on every context the validator's success is the approved flag of its
\* aggregate report, and it approves a context without validation_results;
\* with valid_001 registered, the development phase moves to delivery only
\* in a call whose last step is the validator, succeeding with an approved
\* aggregate.
C36_DeliveryNeedsApproval ==
    [][ /\ LET r == ValidatorAgent_execute(shared_context) IN
           /\ r.success = Aggregate(r).approved
           /\ "validation_results" \notin DOMAIN shared_context => r.success
        /\ ( /\ workflow_state = "development" /\ workflow_state' = "delivery"
             /\ Registered("valid_001") )
           => LET last == calls'[Len(calls')] IN
              /\ last.agent_id = "valid_001"
              /\ last.outcome.success
              /\ Aggregate(last.outcome).approved
              /\ last.outcome.data = ValidatorAgent_execute(shared_context).data ]_vars

\* Every step before the validator has succeeded and the validator, handed an
\* unsafe review, has not approved: the phase stays in development.
C36_Witness ==
    /\ workflow_state = "development"
    /\ CallIds(calls) = DevelopmentOrder
    /\ ~calls[Len(calls)].outcome.success
    /\ ~Aggregate(calls[Len(calls)].outcome).approved
    /\ IsExecuteResponse(result)
    /\ result.message = <<"Development step failed: ", "Validator Agent", " - ",
                          "ERROR: Project requires additional work">>

\* How often an entry is in a history.
Copies(history, e) == Cardinality({ i \in DOMAIN history : history[i] = e })

\* C37: a call of cleanup_old_backups(k), k >= 0, leaves a history of at most
\* k entries, all out of the history before, none of them older than an entry
\* it has dropped, and every backup path of the history it leaves is a
\* directory that is still on disk.
C37_CleanupRetains ==
    [][ \A k \in 0..MaxKeep :
          CleanupOldBackups(k) =>
            /\ Len(backup_history') <= k
            /\ Len(backup_history') = IF Len(backup_history) <= k
                                        THEN Len(backup_history) ELSE k
            /\ \A e \in Range(backup_history') :
                  /\ e \in Range(backup_history)
                  /\ Copies(backup_history', e) <= Copies(backup_history, e)
                  /\ \A d \in Range(backup_history) :
                        Copies(backup_history', d) < Copies(backup_history, d)
                           => d.timestamp <= e.timestamp
            /\ \A e \in Range(backup_history') : e.backup_path \in backup_dirs' ]_vars

\* C38: in every reachable state current_step is 0 and workflow_steps is
\* empty, so the status query reports current_step 0 and total_steps 0, in
\* whatever phase and after whatever calls.
C38_CountersNeverMove ==
    /\ current_step = 0
    /\ workflow_steps = << >>
    /\ get_workflow_status.current_step = 0
    /\ get_workflow_status.total_steps = 0
    /\ IsStatus => (result.current_step = 0 /\ result.total_steps = 0)

\* The status has been queried in the delivery phase, three phases having
\* run their steps.
C38_Witness ==
    /\ IsStatus
    /\ result.workflow_state = "delivery"
    /\ started
    /\ result.current_step = 0
    /\ result.total_steps = 0

====
